---- MODULE Spec2Model ----
(***************************************************************************)
(* Model of the Tektronix TDS20xx oscilloscope client (tekscope.py):       *)
(* TriggerControl (write-through trigger cache), Measurement (per-channel  *)
(* immediate measurements), Channel (vertical setting, waveform preamble,  *)
(* curve decode), HorizontalControl, the construction of a TDS2024 client  *)
(* and TektronixScope.acquire (the acquisition sequence).                  *)
(*                                                                         *)
(* Python values are records [ty, s]: the Python type and str() of the     *)
(* value, which is what '%s' puts on the wire.  Measurement readings are   *)
(* decimals [m, e] standing for m * 10^e.  A dict is a function whose      *)
(* DOMAIN is the set of keys present.  The transport log tlog holds the    *)
(* transport events (write, sleep, readline, read, console input) of the   *)
(* top-level call in progress, or of the last one when pc = "idle".        *)
(***************************************************************************)
EXTENDS Integers, Sequences, FiniteSets, TLC

VARIABLES
    pc,         \* position of the client inside the top-level call
    call,       \* the top-level call in progress / last finished, its arguments and outcome
    tlog,       \* transport events of that call, in order
    trigD,      \* TriggerControl._trigD
    devTrig,    \* trigger settings held by the instrument
    chanAcqL,   \* TektronixScope._chanAcqL ("unset" until acquire assigns it)
    sweep,      \* TektronixScope.sweep / sweepStr ("unset" until read)
    chan,       \* per channel: Channel and Measurement attributes
    queue,      \* acquire: the channels still to be visited, in iteration order
    keyi,       \* Measurement.__call__: index of the next key of measL
    done,       \* history: channels whose Channel.acquire completed in this call
    batchRead,  \* history: per channel, the types read by its latest measurement batch
    ncalls,     \* number of top-level calls started
    nfaults,    \* number of faulty replies injected by the instrument/transport
    cnt,        \* TDS2024.clear: the local retry counter (0 outside clear)
    horD        \* HorizontalControl._horD

vars == <<pc, call, tlog, trigD, devTrig, chanAcqL, sweep, chan, queue, keyi,
          done, batchRead, ncalls, nfaults, cnt, horD>>

(***************************************************************************)
(* Bounds of the exploration.                                              *)
(***************************************************************************)
MaxCalls == 2
MaxTrigCalls == 2
MaxFaults == 1
MaxReqCh == 2

(***************************************************************************)
(* Python values.                                                          *)
(***************************************************************************)
PyNone == [ty |-> "NoneType", s |-> "None"]
PyStr(x) == [ty |-> "str", s |-> x]
PyFloat(x) == [ty |-> "float", s |-> x]
PyInt(x) == [ty |-> "int", s |-> x]

\* Python truth value testing, as used by "if not val"
Falsy(v) ==
    \/ v.ty = "NoneType"
    \/ v.ty = "str" /\ v.s = ""
    \/ v.ty = "int" /\ v.s = "0"
    \/ v.ty = "float" /\ v.s = "0.0"

\* float(token): the tokens the instrument model can send, to Python floats
FloatTokens == {"4.56E0", "4.56", "5.0E-7", "5e-07", "0", "0.0", "1.0E-3", "0.001"}
FloatOf(tok) ==
    CASE tok \in {"4.56E0", "4.56"} -> PyFloat("4.56")
      [] tok \in {"5.0E-7", "5e-07"} -> PyFloat("5e-07")
      [] tok \in {"0", "0.0"} -> PyFloat("0.0")
      [] tok \in {"1.0E-3", "0.001"} -> PyFloat("0.001")

\* int(token)
IntTokens == {"1", "0"}
IntOf(tok) == PyInt(tok)

(***************************************************************************)
(* Transport events and the InstrumentClient helpers.                      *)
(***************************************************************************)
EvWrite(s) == [k |-> "write", s |-> s, n |-> 0]
EvSleep == [k |-> "sleep", s |-> "", n |-> 0]
EvReadline == [k |-> "readline", s |-> "", n |-> 0]
EvRead(n) == [k |-> "read", s |-> "", n |-> n]
EvInput == [k |-> "input", s |-> "", n |-> 0]

\* a cmd that waits for a line after the delay
cmd_ReadsLine(log, cmdS) == log \o <<EvWrite(cmdS), EvSleep, EvReadline>>

\* TektronixScope.cmd: write, then the settle delay
cmd(log, cmdS) == log \o <<EvWrite(cmdS), EvSleep>>

\* a query that reads right after the write
query_NoSleep(log, req, nBytes) ==
    log \o <<EvWrite(req), IF nBytes > 0 THEN EvRead(nBytes) ELSE EvReadline>>

\* TektronixScope.query: write, settle delay, then one line or nBytes bytes
query(log, req, nBytes) ==
    log \o <<EvWrite(req), EvSleep, IF nBytes > 0 THEN EvRead(nBytes) ELSE EvReadline>>

\* a query for one line that also records, in the read event, what the line
\* held after its header: the second token, "" when the line has none
ReplyTok(line) == IF Len(line) < 2 THEN "" ELSE line[2]
queryReply(log, req, line) ==
    LET l == query(log, req, 0)
    IN  [l EXCEPT ![Len(l)] = [@ EXCEPT !.s = ReplyTok(line)]]

\* the commands written during the call, in order
RECURSIVE Writes(_)
Writes(log) ==
    IF log = <<>> THEN <<>>
    ELSE (IF Head(log).k = "write" THEN <<Head(log).s>> ELSE <<>>) \o Writes(Tail(log))

(***************************************************************************)
(* TriggerControl.                                                         *)
(***************************************************************************)
trigT == {"STATE", "MODE", "TYPE", "LEVEL", "HOLDO",
          "EDGE:SOU", "EDGE:COUP", "EDGE:SLO",
          "PULS:SOU", "PULS:WIDTH:POL", "PULS:WIDTH:WHEN", "PULS:WIDTH:WIDTH",
          "VID:SOU", "VID:LINE", "VID:POL", "VID:STAND", "VID:SYNC"}

\* conversion applied to a reply token (None in the source: keep the token)
trigFuncD(key) ==
    IF key \in {"LEVEL", "HOLDO", "PULS:WIDTH:WIDTH"} THEN "float"
    ELSE IF key = "VID:LINE" THEN "int"
    ELSE "None"

mainD == {"MODE", "TYPE", "LEVEL", "HOLDO"}
edgeD == {"SOU", "COUP", "SLO"}
pulsD == {"WIDTH:POL", "WIDTH:WHEN", "WIDTH:WIDTH", "SOU"}
vidD == {"SOU", "LINE", "POL", "STAND", "SYNC"}
trigTypesD == [MAIN |-> mainD, EDGE |-> edgeD, PULS |-> pulsD, VID |-> vidD]

\* d[k] = v on a dict
DictSet(d, k, v) == [x \in (DOMAIN d) \cup {k} |-> IF x = k THEN v ELSE d[x]]

\* the instrument applies a trigger set command
DevTrigSet(dev, key, val) ==
    IF key \in DOMAIN dev THEN [dev EXCEPT ![key] = val.s] ELSE dev

\* __setitem__ that sends the command but does not store the value locally
TrigSetItem_NoStore(st, key, val) ==
    IF st.exc # "" THEN st
    ELSE IF Falsy(val) THEN st
    ELSE IF key \notin trigT THEN [st EXCEPT !.exc = "ValueError"]
    ELSE [st EXCEPT !.log = cmd(@, "TRIGGER:MAIN:" \o key \o " " \o val.s),
                    !.dev = DevTrigSet(@, key, val)]

\* __setitem__ without the "if not val: return" guard
TrigSetItem_NoGuard(st, key, val) ==
    IF st.exc # "" THEN st
    ELSE IF key \notin trigT THEN [st EXCEPT !.exc = "ValueError"]
    ELSE [st EXCEPT !.log = cmd(@, "TRIGGER:MAIN:" \o key \o " " \o val.s),
                    !.dev = DevTrigSet(@, key, val),
                    !.trigD = DictSet(@, key, val)]

\* TriggerControl.__setitem__ on a context [trigD, dev, log, exc]
TrigSetItem(st, key, val) ==
    IF st.exc # "" THEN st
    ELSE IF Falsy(val) THEN st
    ELSE IF key \notin trigT THEN [st EXCEPT !.exc = "ValueError"]
    ELSE [st EXCEPT !.log = cmd(@, "TRIGGER:MAIN:" \o key \o " " \o val.s),
                    !.dev = DevTrigSet(@, key, val),
                    !.trigD = DictSet(@, key, val)]

\* TriggerControl._setD: kwL is kwD.items() in the order the dict yields them
RECURSIVE TrigSetD(_, _, _)
TrigSetD(st, typ, kwL) ==
    IF st.exc # "" \/ kwL = <<>> THEN st
    ELSE IF Head(kwL)[1] \notin trigTypesD[typ] THEN [st EXCEPT !.exc = "IndexError"]
    ELSE TrigSetD(TrigSetItem(st, typ \o ":" \o Head(kwL)[1], Head(kwL)[2]), typ, Tail(kwL))

\* the "if typ:" block with the type written before the type-specific fields
TrigSetType_TypeFirst(st, typ, kwL) ==
    IF st.exc # "" \/ Falsy(typ) THEN st
    ELSE IF typ.s \notin DOMAIN trigTypesD THEN [st EXCEPT !.exc = "TypeError"]
    ELSE TrigSetD(TrigSetItem(st, "TYPE", typ), typ.s, kwL)

\* the tail of setTrigger: the "if typ:" block
TrigSetType(st, typ, kwL) ==
    IF st.exc # "" \/ Falsy(typ) THEN st
    ELSE IF typ.s \notin DOMAIN trigTypesD THEN [st EXCEPT !.exc = "TypeError"]
    ELSE TrigSetItem(TrigSetD(st, typ.s, kwL), "TYPE", typ)

\* TriggerControl.setTrigger
TrigSetTrigger(st, level, mode, holdo, typ, kwL) ==
    TrigSetType(
        TrigSetItem(TrigSetItem(TrigSetItem(st, "LEVEL", level), "MODE", mode), "HOLDO", holdo),
        typ, kwL)

\* the instrument's reply line to a trigger query, as whitespace-separated tokens
DevTrigReply(dev, key) == <<":TRIGGER:" \o key, dev[key]>>

\* an empty reply line (split() yields no token)
EmptyLine == <<>>

\* dict iteration order of the variant dictionaries (CPython 2, as in the recorded session)
trigOrder ==
    [MAIN |-> <<"HOLDO", "TYPE", "MODE", "LEVEL">>,
     EDGE |-> <<"COUP", "SLO", "SOU">>,
     PULS |-> <<"SOU", "WIDTH:POL", "WIDTH:WHEN", "WIDTH:WIDTH">>,
     VID |-> <<"SOU", "LINE", "POL", "STAND", "SYNC">>]

\* TektronixScope.query_val on a refresh context [trigD, log, exc, q, bad]:
\* the q-th query of the refresh; query number bad receives an empty line.
\* Yields the context and the token (resp.strip().split()[-1]).
QueryVal(st, req, reply) ==
    LET line == IF st.q + 1 = st.bad THEN EmptyLine ELSE reply
        st1 == [st EXCEPT !.log = query(@, req, 0), !.q = @ + 1]
    IN  IF line = <<>> THEN [st |-> [st1 EXCEPT !.exc = "IndexError"], tok |-> ""]
        ELSE [st |-> st1, tok |-> line[Len(line)]]

\* the conversion func(val) of _acqD; "" when it raises
TrigConvOk(key, tok) ==
    CASE trigFuncD(key) = "float" -> tok \in FloatTokens
      [] trigFuncD(key) = "int" -> tok \in IntTokens
      [] OTHER -> TRUE

\* a refresh that stores a fixed type instead of the instrument's reply
TrigConv_TypeEdge(key, tok) ==
    CASE key = "TYPE" -> PyStr("EDGE")
      [] trigFuncD(key) = "float" -> FloatOf(tok)
      [] trigFuncD(key) = "int" -> IntOf(tok)
      [] OTHER -> PyStr(tok)

TrigConv(key, tok) ==
    CASE trigFuncD(key) = "float" -> FloatOf(tok)
      [] trigFuncD(key) = "int" -> IntOf(tok)
      [] OTHER -> PyStr(tok)

\* TriggerControl.acqState
TrigAcqState(st, dev) ==
    LET r == QueryVal(st, "TRIG:STATE?", DevTrigReply(dev, "STATE"))
    IN  IF r.st.exc # "" THEN r.st
        ELSE [r.st EXCEPT !.trigD = DictSet(@, "STATE", PyStr(r.tok))]

\* the loop of TriggerControl._acqD over the fields sL of variant typ
RECURSIVE TrigAcqLoop(_, _, _, _)
TrigAcqLoop(st, dev, typ, sL) ==
    IF st.exc # "" \/ sL = <<>> THEN st
    ELSE LET s == Head(sL)
             key == IF typ = "MAIN" THEN s ELSE typ \o ":" \o s
             name == IF typ = "MAIN" THEN "TRIGGER:MAIN:" ELSE "TRIGGER:MAIN:" \o typ \o ":"
             r == QueryVal(st, name \o s \o "?", DevTrigReply(dev, key))
             st2 == IF r.st.exc # "" THEN r.st
                    ELSE IF ~TrigConvOk(key, r.tok) THEN [r.st EXCEPT !.exc = "ValueError"]
                    ELSE [r.st EXCEPT !.trigD = DictSet(@, key, TrigConv(key, r.tok))]
         IN  TrigAcqLoop(st2, dev, typ, Tail(sL))

\* TriggerControl._acqD
TrigAcqD(st, dev, typ) ==
    IF st.exc # "" THEN st
    ELSE IF typ \notin DOMAIN trigTypesD THEN [st EXCEPT !.exc = "KeyError"]
    ELSE TrigAcqLoop(st, dev, typ, trigOrder[typ])

\* acqSettings that always refreshes the edge variant, whatever type was read
TrigAcqSettings_EdgeOnly(st, dev) ==
    LET s1 == TrigAcqD(TrigAcqState(st, dev), dev, "MAIN")
    IN  IF s1.exc # "" THEN s1 ELSE TrigAcqD(s1, dev, "EDGE")

\* TriggerControl.acqSettings
TrigAcqSettings(st, dev) ==
    LET s1 == TrigAcqD(TrigAcqState(st, dev), dev, "MAIN")
    IN  IF s1.exc # "" THEN s1 ELSE TrigAcqD(s1, dev, s1.trigD["TYPE"].s)

\* the keys of the common block getTrigger copies into the snapshot
snapshotCommon == {"LEVEL", "HOLDO", "MODE", "TYPE", "STATE"}

\* the dict getTrigger builds from the cache d: the common keys, then the keys
\* of the variant named by d['TYPE'], each read as d[typ + ':' + key]
TrigSnapshotExc(d) ==
    IF ~(snapshotCommon \subseteq DOMAIN d) THEN "KeyError"
    ELSE IF d["TYPE"].s \notin DOMAIN trigTypesD THEN "KeyError"
    ELSE IF \E key \in trigTypesD[d["TYPE"].s] : (d["TYPE"].s \o ":" \o key) \notin DOMAIN d
         THEN "KeyError"
    ELSE ""
TrigSnapshot(d) ==
    LET typ == d["TYPE"].s
    IN  [key \in snapshotCommon \cup trigTypesD[typ] |->
            IF key \in trigTypesD[typ] THEN d[typ \o ":" \o key] ELSE d[key]]

\* getTrigger that refreshes from the instrument whatever forceAcq says
TrigGetTrigger_AlwaysAcq(st, dev, forceAcq) ==
    LET s1 == TrigAcqSettings(st, dev)
    IN  IF s1.exc # "" THEN [st |-> s1, ret |-> <<>>]
        ELSE IF TrigSnapshotExc(s1.trigD) # ""
        THEN [st |-> [s1 EXCEPT !.exc = TrigSnapshotExc(s1.trigD)], ret |-> <<>>]
        ELSE [st |-> s1, ret |-> TrigSnapshot(s1.trigD)]

\* TriggerControl.getTrigger on a refresh context: the context and the snapshot
TrigGetTrigger(st, dev, forceAcq) ==
    LET s1 == IF forceAcq THEN TrigAcqSettings(st, dev) ELSE st
    IN  IF s1.exc # "" THEN [st |-> s1, ret |-> <<>>]
        ELSE IF TrigSnapshotExc(s1.trigD) # ""
        THEN [st |-> [s1 EXCEPT !.exc = TrigSnapshotExc(s1.trigD)], ret |-> <<>>]
        ELSE [st |-> s1, ret |-> TrigSnapshot(s1.trigD)]

\* the largest number of queries one refresh sends: state, common block, largest variant
MaxRefreshQueries == 1 + Len(trigOrder.MAIN) + Len(trigOrder.VID)

(***************************************************************************)
(* Decimal numbers [m, e] = m * 10^e, the floats of the measurement and    *)
(* waveform subsystems.                                                    *)
(***************************************************************************)
Dec(m, e) == [m |-> m, e |-> e]
Abs(n) == IF n < 0 THEN -n ELSE n

RECURSIVE Pow10(_)
Pow10(n) == IF n <= 0 THEN 1 ELSE 10 * Pow10(n - 1)

\* strip trailing zeros of the mantissa, zero is 0 * 10^0
RECURSIVE DecNorm(_)
DecNorm(d) ==
    IF d.m = 0 THEN Dec(0, 0)
    ELSE IF d.m % 10 = 0 THEN DecNorm(Dec(d.m \div 10, d.e + 1))
    ELSE d

\* |d| >= 10^j and |d| > 10^j, for a mantissa of at most 9 digits
DecGE10(d, j) ==
    IF d.m = 0 THEN FALSE
    ELSE IF d.e >= j THEN TRUE
    ELSE IF j - d.e > 9 THEN FALSE
    ELSE Abs(d.m) >= Pow10(j - d.e)
DecGT10(d, j) ==
    IF d.m = 0 THEN FALSE
    ELSE IF d.e > j THEN TRUE
    ELSE IF d.e = j THEN Abs(d.m) > 1
    ELSE IF j - d.e > 9 THEN FALSE
    ELSE Abs(d.m) > Pow10(j - d.e)

DecAdd(a, b) ==
    LET e == IF a.e < b.e THEN a.e ELSE b.e
    IN  DecNorm(Dec(a.m * Pow10(a.e - e) + b.m * Pow10(b.e - e), e))
DecNeg(a) == Dec(-a.m, a.e)
DecSub(a, b) == DecAdd(a, DecNeg(b))
DecMul(a, b) == DecNorm(Dec(a.m * b.m, a.e + b.e))
DecOfInt(n) == DecNorm(Dec(n, 0))

\* int(d): truncation toward zero, as '%i' does
DecTrunc(d) ==
    IF d.e >= 0 THEN d.m * Pow10(d.e)
    ELSE IF d.m >= 0 THEN d.m \div Pow10(-d.e)
    ELSE -((-d.m) \div Pow10(-d.e))

\* float(token) for the numeric tokens of measurement, scale and preamble replies
DecTokens == {"0.0E0", "1.4E-3", "4.88E0", "9.9E37", "5.0E-1", "5.0E-2", "2.0E0", "1.0E0", "4.0E-2",
              "2.0E-4", "-1.5E-1", "2.0E-2", "-1.66E2", "-1.91E2"}
DecOf(tok) ==
    CASE tok = "0.0E0" -> Dec(0, 0)
      [] tok = "1.4E-3" -> Dec(14, -4)
      [] tok = "4.88E0" -> Dec(488, -2)
      [] tok = "9.9E37" -> Dec(99, 36)
      [] tok = "5.0E-1" -> Dec(5, -1)
      [] tok = "5.0E-2" -> Dec(5, -2)
      [] tok = "2.0E0" -> Dec(2, 0)
      [] tok = "1.0E0" -> Dec(1, 0)
      [] tok = "4.0E-2" -> Dec(4, -2)
      [] tok = "2.0E-4" -> Dec(2, -4)
      [] tok = "-1.5E-1" -> Dec(-15, -2)
      [] tok = "2.0E-2" -> Dec(2, -2)
      [] tok = "-1.66E2" -> Dec(-166, 0)
      [] tok = "-1.91E2" -> Dec(-191, 0)

\* TektronixScope.query_float on a reply line: float(resp.split()[1]);
\* "" when it succeeds, else the exception raised
QueryFloatExc(line) ==
    IF Len(line) < 2 THEN "IndexError"
    ELSE IF line[2] \notin DecTokens THEN "ValueError"
    ELSE ""
QueryFloat(line) == DecOf(line[2])

(***************************************************************************)
(* Measurement.                                                            *)
(***************************************************************************)
mtypeT == <<"FREQ", "MEAN", "PERI", "PHAS", "PK2P", "CRMS",
            "MINI", "MAXI", "RISE", "FALL", "PWID", "NWID">>
munitsT == <<"Hz", "V ", "s ", "", "V ", "V ", "V ", "V ", "s ", "s ", "s ", "s ">>
mtypeS == {mtypeT[i] : i \in 1..Len(mtypeT)}
mtypeD == [t \in mtypeS |-> munitsT[CHOOSE i \in 1..Len(mtypeT) : mtypeT[i] = t]]

\* Tektronix "not a number"
mNAN == Dec(99, 36)

\* Measurement.sufD, keyed by the exponent step mulmod
sufDKeys == {0, 3, 6, 9, 12, -3, -6}
sufD(mulmod) ==
    CASE mulmod = 0 -> " "
      [] mulmod = 3 -> "m"
      [] mulmod = 6 -> "u"
      [] mulmod = 9 -> "n"
      [] mulmod = 12 -> "p"
      [] mulmod = -3 -> "k"
      [] mulmod = -6 -> "M"

\* string.upper on the tags callers pass
upper(key) ==
    CASE key = "freq" -> "FREQ"
      [] key = "mean" -> "MEAN"
      [] OTHER -> key

\* 3 * ceil(log10(1.0 / aval) / 3): the least multiple of 3, 3k, with aval * 10^(3k) >= 1
MulmodRange == -5..6
Mulmod(val) ==
    3 * (CHOOSE k \in MulmodRange :
            /\ DecGE10(val, -3 * k)
            /\ ~DecGE10(val, -3 * (k - 1)))

\* the number '{:> 8.3f}' prints: d rounded to three decimals (a tie goes to the
\* even neighbour)
Fmt3f(d) ==
    IF d.e >= -3 THEN DecNorm(d)
    ELSE LET p == Pow10(-3 - d.e)
             q == Abs(d.m) \div p
             r == Abs(d.m) % p
             up == IF 2 * r > p \/ (2 * r = p /\ q % 2 = 1) THEN 1 ELSE 0
         IN  DecNorm(Dec((IF d.m < 0 THEN -1 ELSE 1) * (q + up), -3))

\* a rendered measurement: the tag, the number printed, the prefix and the unit
MeasStr(kind, meas, num, suf, unit) ==
    [kind |-> kind, meas |-> meas, num |-> num, suf |-> suf, unit |-> unit]

\* val_to_string without the test against 10.0e9: the prefix lookup fails on
\* the sentinel
ValToStringExc_NoCutoff(val, meas) ==
    IF val.m = 0 THEN ""
    ELSE IF DecGT10(val, 10) THEN "KeyError"
    ELSE IF (~DecGE10(val, 0) \/ DecGE10(val, 3)) /\ Mulmod(val) \notin sufDKeys THEN "KeyError"
    ELSE ""

\* Measurement.val_to_string; ValToStringExc is the exception it raises, "" if none
ValToStringExc(val, meas) ==
    IF val.m = 0 \/ DecGT10(val, 10) THEN ""
    ELSE IF (~DecGE10(val, 0) \/ DecGE10(val, 3)) /\ Mulmod(val) \notin sufDKeys THEN "KeyError"
    ELSE ""
ValToString(val, meas) ==
    IF val.m = 0 THEN MeasStr("value", meas, Fmt3f(val), " ", mtypeD[meas])
    ELSE IF DecGT10(val, 10) THEN MeasStr("unmeasurable", meas, Dec(0, 0), "", "")
    ELSE IF ~DecGE10(val, 0) \/ DecGE10(val, 3)
         THEN MeasStr("value", meas, Fmt3f(Dec(val.m, val.e + Mulmod(val))),
                      sufD(Mulmod(val)), mtypeD[meas])
    ELSE MeasStr("value", meas, Fmt3f(val), " ", mtypeD[meas])

\* Measurement.reset on the measurement part ms of a channel:
\* [isReset, measL, val, str, rstr]; val holds <tag>, str holds <tag>Str and
\* rstr holds <tag>_Str, the attribute reset() writes
MeasReset(ms) ==
    IF ~ms.isReset
    THEN [ms EXCEPT !.val = [t \in mtypeS |-> mNAN],
                    !.rstr = [t \in mtypeS |-> "********"],
                    !.isReset = TRUE]
    ELSE [ms EXCEPT !.isReset = TRUE]

\* Measurement.__init__
MeasInit ==
    MeasReset([isReset |-> FALSE, measL |-> <<>>, val |-> <<>>, str |-> <<>>, rstr |-> <<>>])

\* __call__ that stores the request back to front
MeasCallBegin_Reversed(ms, keyL) ==
    [MeasReset(ms) EXCEPT !.measL = [i \in 1..Len(keyL) |-> upper(keyL[Len(keyL) + 1 - i])]]

\* Measurement.__call__, up to the loop: reset and store the upper-cased request
MeasCallBegin(ms, keyL) ==
    [MeasReset(ms) EXCEPT !.measL = [i \in 1..Len(keyL) |-> upper(keyL[i])]]

\* Measurement.__call__, loop body after the reading: store the string, then the value
MeasStore(ms, key, val) ==
    [ms EXCEPT !.str = DictSet(@, key, ValToString(val, key)),
               !.val = DictSet(@, key, val)]

\* Measurement.getMeasStrLL; "AttributeError" when a requested string was never set
GetMeasStrLLExc(ms) ==
    IF \E i \in 1..Len(ms.measL) : ms.measL[i] \notin DOMAIN ms.str
    THEN "AttributeError" ELSE ""
GetMeasStrLL(ms) == [i \in 1..Len(ms.measL) |-> ms.str[ms.measL[i]]]

(***************************************************************************)
(* Channel.                                                                *)
(***************************************************************************)
NumCh == 4
Channels == 1..NumCh

\* 'CH%1d' % chN
ChName(c) == "CH" \o ToString(c)

\* number of points of a curve, and the largest integer a reply token spells
NPts == 2
MaxTokInt == 16

\* int(token) for preamble and curve-header tokens; IntTokOk says whether it parses
IntTokOk(tok) == \E n \in 0..MaxTokInt : ToString(n) = tok
IntOfTok(tok) == CHOOSE n \in 0..MaxTokInt : ToString(n) = tok

\* values of the preamble dict wfmD, one shape for the three Python types
WInt(n) == [ty |-> "int", i |-> n, d |-> Dec(0, 0), s |-> ""]
WFloat(d) == [ty |-> "float", i |-> 0, d |-> d, s |-> ""]
WStr(x) == [ty |-> "str", i |-> 0, d |-> Dec(0, 0), s |-> x]

wfmIntKeys == {"BYT_NR", "BIT_NR", "NR_PT", "PT_OFF"}
wfmFloatKeys == {"XINCR", "XZERO", "YMULT", "YZERO", "YOFF"}
wfmStripKeys == {"WFID", "XUNIT", "YUNIT"}
wfmNoneKeys == {"ENCDG", "BN_FMT", "BYT_OR", "PT_FMT"}
wfmT == wfmIntKeys \cup wfmFloatKeys \cup wfmStripKeys \cup wfmNoneKeys

\* _strip: drop the double quotes of a reply token
QuotedTokens == {"\"s\"", "\"Volts\"", "\"Ch1\"", "\"Ch2\"", "\"Ch3\"", "\"Ch4\""}
Strip(tok) ==
    CASE tok = "\"s\"" -> "s"
      [] tok = "\"Volts\"" -> "Volts"
      [] tok = "\"Ch1\"" -> "Ch1"
      [] tok = "\"Ch2\"" -> "Ch2"
      [] tok = "\"Ch3\"" -> "Ch3"
      [] tok = "\"Ch4\"" -> "Ch4"
      [] OTHER -> tok

\* wfmFuncD[name](val); WfmConvOk says whether the conversion returns
WfmConvOk(name, tok) ==
    CASE name \in wfmIntKeys -> IntTokOk(tok)
      [] name \in wfmFloatKeys -> tok \in DecTokens
      [] OTHER -> TRUE
WfmConv(name, tok) ==
    CASE name \in wfmIntKeys -> WInt(IntOfTok(tok))
      [] name \in wfmFloatKeys -> WFloat(DecOf(tok))
      [] name \in wfmStripKeys -> WStr(Strip(tok))
      [] OTHER -> WStr(tok)

\* Channel.__init__: attributes that are not yet set are empty sequences
ChannelInit ==
    [voltsdiv |-> <<>>, voltStr |-> <<>>, wfmD |-> <<>>, points |-> <<>>,
     trace |-> <<>>, trace_undisplaced |-> <<>>, ms |-> MeasInit]

\* Channel.getVerticalSetting, after the query returned voltsdiv
ChanVertical(ch, voltsdiv) ==
    [ch EXCEPT !.voltStr =
                   IF DecGE10(voltsdiv, 0) /\ voltsdiv.m > 0
                   THEN <<[n |-> DecTrunc(voltsdiv), unit |-> "V/DIV"]>>
                   ELSE <<[n |-> DecTrunc(DecMul(voltsdiv, Dec(1, 3))), unit |-> "mV/DIV"]>>,
               !.voltsdiv = <<voltsdiv>>]

\* the loop of wfmpreQ without the test 'name in self.wfmT': every field is
\* stored, as a string when it has no conversion
RECURSIVE WfmParse_StoreAll(_, _)
WfmParse_StoreAll(r, fields) ==
    IF r.exc # "" \/ fields = <<>> THEN r
    ELSE LET f == Head(fields)
         IN  IF Len(f) < 2 THEN [r EXCEPT !.exc = "ValueError"]
             ELSE IF ~WfmConvOk(f[1], f[2]) THEN [r EXCEPT !.exc = "ValueError"]
             ELSE WfmParse_StoreAll([r EXCEPT !.wfmD = DictSet(@, f[1], WfmConv(f[1], f[2]))],
                                    Tail(fields))

\* the loop of Channel.wfmpreQ over the fields of the reply, each <<name, token>>
\* (a field without a space is <<name>>); yields [wfmD, exc]
RECURSIVE WfmParse(_, _)
WfmParse(r, fields) ==
    IF r.exc # "" \/ fields = <<>> THEN r
    ELSE LET f == Head(fields)
         IN  IF Len(f) < 2 THEN [r EXCEPT !.exc = "ValueError"]
             ELSE IF f[1] \notin wfmT THEN WfmParse(r, Tail(fields))
             ELSE IF ~WfmConvOk(f[1], f[2]) THEN [r EXCEPT !.exc = "ValueError"]
             ELSE WfmParse([r EXCEPT !.wfmD = DictSet(@, f[1], WfmConv(f[1], f[2]))],
                           Tail(fields))

\* the decode of Channel.acquire: the payload without its last byte, scaled
ChanDecode(ch, payload) ==
    LET n == Len(payload) - 1
        yoff == ch.wfmD["YOFF"].d
        ymult == ch.wfmD["YMULT"].d
        yzero == ch.wfmD["YZERO"].d
    IN  [ch EXCEPT !.trace =
                       <<[i \in 1..n |->
                            DecAdd(DecMul(DecSub(DecOfInt(payload[i]), yoff), ymult), yzero)]>>,
                   !.trace_undisplaced =
                       <<[i \in 1..n |->
                            [num |-> DecMul(DecOfInt(payload[i]), ymult),
                             den |-> ch.voltsdiv[1]]]>>]

(***************************************************************************)
(* The instrument: what it replies to the client's queries.                *)
(***************************************************************************)
DevTrigInit ==
    [k \in trigT |->
        CASE k = "STATE" -> "SAVE"
          [] k = "MODE" -> "NORMAL"
          [] k = "TYPE" -> "EDGE"
          [] k = "LEVEL" -> "4.56E0"
          [] k = "HOLDO" -> "5.0E-7"
          [] k = "EDGE:COUP" -> "DC"
          [] k = "EDGE:SLO" -> "FALL"
          [] k = "PULS:WIDTH:POL" -> "POSITIVE"
          [] k = "PULS:WIDTH:WHEN" -> "EQUAL"
          [] k = "PULS:WIDTH:WIDTH" -> "1.0E-3"
          [] k = "VID:LINE" -> "1"
          [] k = "VID:POL" -> "NORMAL"
          [] k = "VID:STAND" -> "NTSC"
          [] k = "VID:SYNC" -> "FIELD"
          [] OTHER -> "CH3"]

\* reply lines to a float query: a well-formed one per value, and the two faulty shapes
GoodLine(hdr, tok) == <<hdr, tok>>
BadLines(hdr) == {<<hdr>>, <<hdr, "?">>}

DevSweepTok == "5.0E-2"
DevScaleTok(c) == IF c = 1 THEN "5.0E-1" ELSE "2.0E0"
DevMeasToks == {"1.4E-3", "9.9E37"}

\* the preamble the instrument reports for data source c
DevPreamble(c) ==
    <<  <<"BYT_NR", "1">>, <<"BIT_NR", "8">>, <<"ENCDG", "BIN">>, <<"BN_FMT", "RI">>,
        <<"BYT_OR", "LSB">>, <<"NR_PT", ToString(NPts)>>,
        <<"WFID", "\"Ch" \o ToString(c) \o "\"">>, <<"PT_FMT", "Y">>,
        <<"XINCR", "2.0E-4">>, <<"PT_OFF", "0">>, <<"XZERO", "-1.5E-1">>,
        <<"XUNIT", "\"s\"">>, <<"YMULT", "2.0E-2">>, <<"YZERO", "0.0E0">>,
        <<"YOFF", IF c = 1 THEN "-1.66E2" ELSE "-1.91E2">>, <<"YUNIT", "\"Volts\"">> >>
\* a reply with a field that has no value
BadPreamble == << <<"BYT_NR", "1">>, <<"BIT_NR">> >>

\* the curve reply for source c: byte 8 of the header, the count field, the payload
DevSamples(c) == [i \in 1..NPts |-> 7 * i - 10 * c]
DevCurve(c) ==
    [digit |-> "1", count |-> ToString(NPts), data |-> DevSamples(c) \o <<10>>]
BadCurve == [digit |-> "?", count |-> "", data |-> <<>>]

(***************************************************************************)
(* Inputs of the top-level calls.                                          *)
(***************************************************************************)
\* requested measurement lists: supported tags in either case, and an unsupported one
MeasLists == {<<>>, <<"FREQ">>, <<"freq", "MEAN">>, <<"MEAN", "BOGUS">>, <<"BOGUS", "FREQ">>}

\* request maps of acquire: channel -> measurement list, over the first MaxReqCh channels
ReqMaps == UNION {[S -> MeasLists] : S \in SUBSET (1..MaxReqCh)}

\* dict.items() of a dict with small integer keys: ascending keys (CPython 2)
RECURSIVE KeysInOrder(_)
KeysInOrder(S) ==
    IF S = {} THEN <<>>
    ELSE LET m == CHOOSE x \in S : \A y \in S : x <= y
         IN  <<m>> \o KeysInOrder(S \ {m})

\* the channel the client is working on
Cur == IF call.op = "acquire" THEN Head(queue) ELSE call.args.ch

\* a faulty reply may be drawn while the fault budget lasts
FaultsLeft == nfaults < MaxFaults

(***************************************************************************)
(* Initial state: the client after construction, nothing acquired yet.     *)
(***************************************************************************)
Init ==
    /\ pc = "idle"
    /\ call = [op |-> "init", args |-> <<>>, result |-> "ok"]
    /\ tlog = <<>>
    /\ trigD = <<>>
    /\ devTrig = DevTrigInit
    /\ chanAcqL = <<>>
    /\ sweep = <<>>
    /\ chan = [c \in Channels |-> ChannelInit]
    /\ queue = <<>>
    /\ keyi = 0
    /\ done = {}
    /\ batchRead = [c \in Channels |-> {}]
    /\ ncalls = 0
    /\ nfaults = 0
    /\ cnt = 0
    /\ horD = <<>>

\* an exception that is caught where it is raised: the statement is run again
Raise_Retry(exc) == UNCHANGED <<pc, call>>

\* an exception leaves the call: control is back at the caller
Raise(exc) ==
    /\ pc' = "idle"
    /\ call' = [call EXCEPT !.result = exc]

\* a call begins: a fresh transport log
Begin(op, args) ==
    /\ pc = "idle"
    /\ ncalls < MaxCalls
    /\ ncalls' = ncalls + 1
    /\ call' = [op |-> op, args |-> args, result |-> "running"]
    /\ tlog' = <<>>
    /\ done' = {}

(***************************************************************************)
(* TektronixScope.acquire, step by step.                                   *)
(***************************************************************************)
\* acquire(chmD, prepChannels) is called
AcquireCall(chmD, prepChannels) ==
    /\ Begin("acquire", [chmD |-> chmD, prep |-> prepChannels])
    /\ pc' = "acqSettings"
    /\ queue' = <<>>
    /\ UNCHANGED <<horD, cnt, trigD, devTrig, chanAcqL, sweep, chan, keyi, batchRead, nfaults>>

\* self._triggerCtl.acqSettings(); query number bad (if any) gets an empty line
AcqSettings(bad) ==
    /\ pc = "acqSettings"
    /\ bad > 0 => FaultsLeft
    /\ LET st == TrigAcqSettings([trigD |-> trigD, log |-> tlog, exc |-> "", q |-> 0,
                                  bad |-> bad], devTrig)
       IN  /\ bad <= st.q
           /\ trigD' = st.trigD
           /\ tlog' = st.log
           /\ IF st.exc # "" THEN Raise(st.exc)
              ELSE pc' = "prepare" /\ UNCHANGED call
    /\ nfaults' = IF bad > 0 THEN nfaults + 1 ELSE nfaults
    /\ UNCHANGED <<horD, cnt, devTrig, chanAcqL, sweep, chan, queue, keyi, done, batchRead, ncalls>>

\* prepare(): arm the acquisition ...
Prepare ==
    /\ pc = "prepare"
    /\ tlog' = cmd(tlog, "acquire:state on")
    /\ pc' = "ready"
    /\ UNCHANGED <<horD, cnt, call, trigD, devTrig, chanAcqL, sweep, chan, queue, keyi, done,
                   batchRead, ncalls, nfaults>>

\* prepare() that does not wait for the operator
Ready_NoWait ==
    /\ pc = "ready"
    /\ pc' = "sweep"
    /\ UNCHANGED <<horD, cnt, call, tlog, trigD, devTrig, chanAcqL, sweep, chan, queue, keyi, done,
                   batchRead, ncalls, nfaults>>

\* ... and raw_input returns when the operator presses ENTER
Ready ==
    /\ pc = "ready"
    /\ tlog' = Append(tlog, EvInput)
    /\ pc' = "sweep"
    /\ UNCHANGED <<horD, cnt, call, trigD, devTrig, chanAcqL, sweep, chan, queue, keyi, done,
                   batchRead, ncalls, nfaults>>

\* self._chanAcqL = chmD.keys(), replacing the list old of the previous batch
ChanAcqLAssign_Extend(old, chmD) ==
    <<(IF old = <<>> THEN {} ELSE old[1]) \cup DOMAIN chmD>>
ChanAcqLAssign(old, chmD) == <<DOMAIN chmD>>

\* getSweepSetting's local sufD
sweepSufKeys == {3, 6, 9}

\* getSweepSetting(), then self._chanAcqL = chmD.keys() and the head of the loop
GetSweepSetting(line) ==
    /\ pc = "sweep"
    /\ line \in BadLines(":HORIZONTAL:MAIN:SCALE") => FaultsLeft
    /\ tlog' = query(tlog, "hor:mai:sca?", 0)
    /\ nfaults' = IF line \in BadLines(":HORIZONTAL:MAIN:SCALE") THEN nfaults + 1 ELSE nfaults
    /\ IF QueryFloatExc(line) # ""
       THEN Raise(QueryFloatExc(line)) /\ UNCHANGED <<sweep, chanAcqL, queue>>
       ELSE LET scaled == QueryFloat(line)
            IN  IF DecGE10(scaled, 0)
                THEN /\ sweep' = <<[scaled |-> scaled, suf |-> " s"]>>
                     /\ chanAcqL' = ChanAcqLAssign(chanAcqL, call.args.chmD)
                     /\ queue' = KeysInOrder(DOMAIN call.args.chmD)
                     /\ pc' = IF queue' = <<>> THEN "complete" ELSE "vert"
                     /\ UNCHANGED call
                ELSE IF Mulmod(scaled) \notin sweepSufKeys
                THEN Raise("KeyError") /\ UNCHANGED <<sweep, chanAcqL, queue>>
                ELSE /\ sweep' = <<[scaled |-> DecNorm(Dec(scaled.m, scaled.e + Mulmod(scaled))),
                                    suf |-> sufD(Mulmod(scaled)) \o "s"]>>
                     /\ chanAcqL' = ChanAcqLAssign(chanAcqL, call.args.chmD)
                     /\ queue' = KeysInOrder(DOMAIN call.args.chmD)
                     /\ pc' = IF queue' = <<>> THEN "complete" ELSE "vert"
                     /\ UNCHANGED call
    /\ UNCHANGED <<horD, cnt, trigD, devTrig, chan, keyi, done, batchRead, ncalls>>

\* chan.getVerticalSetting()
GetVerticalSetting(line) ==
    /\ pc = "vert"
    /\ line \in BadLines(":" \o ChName(Cur) \o ":SCALE") => FaultsLeft
    /\ tlog' = query(tlog, ChName(Cur) \o ":scale?", 0)
    /\ nfaults' = IF line \in BadLines(":" \o ChName(Cur) \o ":SCALE")
                  THEN nfaults + 1 ELSE nfaults
    /\ IF QueryFloatExc(line) # ""
       THEN Raise(QueryFloatExc(line)) /\ UNCHANGED chan
       ELSE /\ chan' = [chan EXCEPT ![Cur] = ChanVertical(@, QueryFloat(line))]
            /\ pc' = "measBegin"
            /\ UNCHANGED call
    /\ UNCHANGED <<horD, cnt, trigD, devTrig, chanAcqL, sweep, queue, keyi, done, batchRead,
                   ncalls>>

(***************************************************************************)
(* Channel.acqMeas / Measurement.__call__, step by step.                   *)
(***************************************************************************)
\* chan.acqMeas(mL) called directly on channel c
AcqMeasCall(c, keyL) ==
    /\ Begin("acqMeas", [ch |-> c, keyL |-> keyL, pre |-> chan[c].ms])
    /\ pc' = "measBegin"
    /\ UNCHANGED <<horD, cnt, trigD, devTrig, chanAcqL, sweep, chan, queue, keyi, batchRead,
                   nfaults>>

\* the measurement list of the batch in progress
CurKeyL == IF call.op = "acquire" THEN call.args.chmD[Cur] ELSE call.args.keyL

\* __call__ up to the loop: self.reset(); self.measL = tuple(map(upper, keyL))
MeasBegin ==
    /\ pc = "measBegin"
    /\ chan' = [chan EXCEPT ![Cur].ms = MeasCallBegin(@, CurKeyL)]
    /\ keyi' = 1
    /\ batchRead' = [batchRead EXCEPT ![Cur] = {}]
    /\ pc' = "measKey"
    /\ UNCHANGED <<horD, cnt, call, tlog, trigD, devTrig, chanAcqL, sweep, queue, done, ncalls,
                   nfaults>>

\* loop body, the key is not a supported type: raise ValueError
MeasKeyUnsupported ==
    /\ pc = "measKey"
    /\ keyi <= Len(chan[Cur].ms.measL)
    /\ chan[Cur].ms.measL[keyi] \notin mtypeS
    /\ Raise("ValueError")
    /\ UNCHANGED <<horD, cnt, tlog, trigD, devTrig, chanAcqL, sweep, chan, queue, keyi, done,
                   batchRead, ncalls, nfaults>>

\* loop body for a supported key: Channel.getImmed, then the two setattr
MeasKeyRead(line) ==
    /\ pc = "measKey"
    /\ keyi <= Len(chan[Cur].ms.measL)
    /\ chan[Cur].ms.measL[keyi] \in mtypeS
    /\ line \in BadLines(":MEASUREMENT:IMMED:VALUE") => FaultsLeft
    /\ nfaults' = IF line \in BadLines(":MEASUREMENT:IMMED:VALUE") THEN nfaults + 1 ELSE nfaults
    /\ LET key == chan[Cur].ms.measL[keyi]
       IN  /\ tlog' = queryReply(cmd(tlog, "measu:imm:typ " \o key \o ";:measu:imm:sou "
                                               \o ChName(Cur)),
                                 "measu:imm:val?", line)
           /\ IF QueryFloatExc(line) # ""
              THEN Raise(QueryFloatExc(line)) /\ UNCHANGED <<chan, keyi, batchRead>>
              ELSE IF ValToStringExc(QueryFloat(line), key) # ""
              THEN Raise(ValToStringExc(QueryFloat(line), key))
                   /\ UNCHANGED <<chan, keyi, batchRead>>
              ELSE /\ chan' = [chan EXCEPT ![Cur].ms = MeasStore(@, key, QueryFloat(line))]
                   /\ batchRead' = [batchRead EXCEPT ![Cur] = @ \cup {key}]
                   /\ keyi' = keyi + 1
                   /\ UNCHANGED <<pc, call>>
    /\ UNCHANGED <<horD, cnt, trigD, devTrig, chanAcqL, sweep, queue, done, ncalls>>

\* the loop is over: self.isReset = False
MeasEnd ==
    /\ pc = "measKey"
    /\ keyi > Len(chan[Cur].ms.measL)
    /\ chan' = [chan EXCEPT ![Cur].ms.isReset = FALSE]
    /\ IF call.op = "acquire"
       THEN pc' = "dataSource" /\ UNCHANGED call
       ELSE pc' = "idle" /\ call' = [call EXCEPT !.result = "ok"]
    /\ UNCHANGED <<horD, cnt, tlog, trigD, devTrig, chanAcqL, sweep, queue, keyi, done, batchRead,
                   ncalls, nfaults>>

(***************************************************************************)
(* Channel.acquire(prepare), step by step, and the end of acquire.         *)
(***************************************************************************)
\* self._instr.cmd('DATA:SOURCE %3s' % self._channel)
ChanDataSource ==
    /\ pc = "dataSource"
    /\ tlog' = cmd(tlog, "DATA:SOURCE " \o ChName(Cur))
    /\ pc' = IF call.args.prep THEN "wfmpre" ELSE "curve"
    /\ UNCHANGED <<horD, cnt, call, trigD, devTrig, chanAcqL, sweep, chan, queue, keyi, done,
                   batchRead, ncalls, nfaults>>

\* wfmpreQ on a preamble cache that is an attribute of the class Channel: the
\* four channels share one dict
ChanWfmpreQ_SharedWfmD(fields) ==
    /\ pc = "wfmpre"
    /\ fields = BadPreamble => FaultsLeft
    /\ nfaults' = IF fields = BadPreamble THEN nfaults + 1 ELSE nfaults
    /\ tlog' = query(tlog, "wfmpre?", 0)
    /\ LET r == WfmParse([wfmD |-> chan[Cur].wfmD, exc |-> ""], fields)
           shared == [c \in Channels |-> [chan[c] EXCEPT !.wfmD = r.wfmD]]
       IN  IF r.exc # ""
           THEN Raise(r.exc) /\ chan' = shared
           ELSE IF "NR_PT" \notin DOMAIN r.wfmD
           THEN Raise("KeyError") /\ chan' = shared
           ELSE /\ chan' = [shared EXCEPT ![Cur].points = <<r.wfmD["NR_PT"].i>>]
                /\ IF call.op = "acquire"
                   THEN pc' = "curve" /\ UNCHANGED call
                   ELSE pc' = "idle" /\ call' = [call EXCEPT !.result = "ok"]
    /\ UNCHANGED <<horD, cnt, trigD, devTrig, chanAcqL, sweep, queue, keyi, done, batchRead,
                   ncalls>>

\* wfmpreQ that builds the preamble cache anew from each reply
ChanWfmpreQ_Replace(fields) ==
    /\ pc = "wfmpre"
    /\ fields = BadPreamble => FaultsLeft
    /\ nfaults' = IF fields = BadPreamble THEN nfaults + 1 ELSE nfaults
    /\ tlog' = query(tlog, "wfmpre?", 0)
    /\ LET r == WfmParse([wfmD |-> <<>>, exc |-> ""], fields)
       IN  IF r.exc # ""
           THEN Raise(r.exc) /\ chan' = [chan EXCEPT ![Cur].wfmD = r.wfmD]
           ELSE IF "NR_PT" \notin DOMAIN r.wfmD
           THEN Raise("KeyError") /\ chan' = [chan EXCEPT ![Cur].wfmD = r.wfmD]
           ELSE /\ chan' = [chan EXCEPT ![Cur].wfmD = r.wfmD,
                                        ![Cur].points = <<r.wfmD["NR_PT"].i>>]
                /\ IF call.op = "acquire"
                   THEN pc' = "curve" /\ UNCHANGED call
                   ELSE pc' = "idle" /\ call' = [call EXCEPT !.result = "ok"]
    /\ UNCHANGED <<horD, cnt, trigD, devTrig, chanAcqL, sweep, queue, keyi, done, batchRead,
                   ncalls>>

\* if prepare: self.wfmpreQ()
ChanWfmpreQ(fields) ==
    /\ pc = "wfmpre"
    /\ fields = BadPreamble => FaultsLeft
    /\ nfaults' = IF fields = BadPreamble THEN nfaults + 1 ELSE nfaults
    /\ tlog' = query(tlog, "wfmpre?", 0)
    /\ LET r == WfmParse([wfmD |-> chan[Cur].wfmD, exc |-> ""], fields)
       IN  IF r.exc # ""
           THEN Raise(r.exc) /\ chan' = [chan EXCEPT ![Cur].wfmD = r.wfmD]
           ELSE IF "NR_PT" \notin DOMAIN r.wfmD
           THEN Raise("KeyError") /\ chan' = [chan EXCEPT ![Cur].wfmD = r.wfmD]
           ELSE /\ chan' = [chan EXCEPT ![Cur].wfmD = r.wfmD,
                                        ![Cur].points = <<r.wfmD["NR_PT"].i>>]
                /\ IF call.op = "acquire"
                   THEN pc' = "curve" /\ UNCHANGED call
                   ELSE pc' = "idle" /\ call' = [call EXCEPT !.result = "ok"]
    /\ UNCHANGED <<horD, cnt, trigD, devTrig, chanAcqL, sweep, queue, keyi, done, batchRead,
                   ncalls>>

\* the keys of wfmD the curve read and the decode look up
wfmDecodeKeys == {"BYT_NR", "YOFF", "YMULT", "YZERO", "NR_PT"}

\* the curve: header query, count field, payload, decode; then the next channel
ChanCurve(reply) ==
    /\ pc = "curve"
    /\ reply = BadCurve => FaultsLeft
    /\ nfaults' = IF reply = BadCurve THEN nfaults + 1 ELSE nfaults
    /\ LET log1 == query(tlog, "curv?", 9)
           ch == chan[Cur]
       IN  IF ~IntTokOk(reply.digit)
           THEN tlog' = log1 /\ Raise("ValueError") /\ UNCHANGED <<chan, done, queue>>
           ELSE IF ~IntTokOk(reply.count)
           THEN /\ tlog' = Append(log1, EvRead(IntOfTok(reply.digit)))
                /\ Raise("ValueError") /\ UNCHANGED <<chan, done, queue>>
           ELSE IF "BYT_NR" \notin DOMAIN ch.wfmD
           THEN /\ tlog' = Append(log1, EvRead(IntOfTok(reply.digit)))
                /\ Raise("KeyError") /\ UNCHANGED <<chan, done, queue>>
           ELSE /\ tlog' = log1 \o <<EvRead(IntOfTok(reply.digit)),
                                     EvRead(ch.wfmD["BYT_NR"].i * IntOfTok(reply.count) + 1)>>
                /\ IF ~(wfmDecodeKeys \subseteq DOMAIN ch.wfmD)
                   THEN Raise("KeyError") /\ UNCHANGED <<chan, done, queue>>
                   ELSE /\ chan' = [chan EXCEPT ![Cur] = ChanDecode(@, reply.data)]
                        /\ done' = done \cup {Cur}
                        /\ queue' = Tail(queue)
                        /\ pc' = IF queue' = <<>> THEN "complete" ELSE "vert"
                        /\ UNCHANGED call
    /\ UNCHANGED <<horD, cnt, trigD, devTrig, chanAcqL, sweep, keyi, batchRead, ncalls>>

\* self.complete(): disarm, and acquire returns
Complete ==
    /\ pc = "complete"
    /\ tlog' = cmd(tlog, "acquire:state off")
    /\ pc' = "idle"
    /\ call' = [call EXCEPT !.result = "ok"]
    /\ UNCHANGED <<horD, cnt, trigD, devTrig, chanAcqL, sweep, chan, queue, keyi, done, batchRead,
                   ncalls, nfaults>>

\* TektronixScope.channelWasAcq; "AttributeError" while _chanAcqL was never assigned
ChannelWasAcqExc == IF chanAcqL = <<>> THEN "AttributeError" ELSE ""
channelWasAcq(chN) == chN \in chanAcqL[1]

(***************************************************************************)
(* Trigger calls.                                                          *)
(***************************************************************************)
\* values callers pass for level, mode, holdoff, type and the type-specific fields
LevelVals == {PyNone, PyFloat("4.56"), PyInt("0")}
ModeVals == {PyStr("NORMAL"), PyStr("")}
HoldoVals == {PyNone, PyFloat("5e-07")}
TypVals == {PyNone, PyStr("EDGE"), PyStr("PULS"), PyStr("SLOPE")}
SetKeys == {"LEVEL", "EDGE:SOU", "SOU"}
SetVals == {PyNone, PyStr(""), PyInt("0"), PyFloat("0.0"), PyFloat("4.56"), PyStr("CH3")}
FieldLists ==
    {<<>>,
     << <<"SOU", PyStr("CH3")>> >>,
     << <<"SOU", PyStr("CH3")>>, <<"SLO", PyStr("FALL")>> >>,
     << <<"SLO", PyStr("")>>, <<"SOU", PyStr("CH1")>> >>,
     << <<"SOU", PyStr("CH1")>>, <<"WIDTH:POL", PyStr("NEGATIVE")>> >>}

\* setTrigger(level, mode, holdo, typ, trigD); kwL is trigD.items()
SetTrigger(level, mode, holdo, typ, kwL) ==
    /\ pc = "idle"
    /\ ncalls < MaxTrigCalls
    /\ ncalls' = ncalls + 1
    /\ LET st == TrigSetTrigger([trigD |-> trigD, dev |-> devTrig, log |-> <<>>, exc |-> ""],
                                level, mode, holdo, typ, kwL)
       IN  /\ trigD' = st.trigD
           /\ devTrig' = st.dev
           /\ tlog' = st.log
           /\ call' = [op |-> "setTrigger",
                       args |-> [level |-> level, mode |-> mode, holdo |-> holdo,
                                 typ |-> typ, kwL |-> kwL],
                       result |-> IF st.exc = "" THEN "ok" ELSE st.exc]
    /\ pc' = "idle"
    /\ UNCHANGED <<horD, cnt, chanAcqL, sweep, chan, queue, keyi, done, batchRead, nfaults>>

\* triggerCtl[key] = val
SetItem(key, val) ==
    /\ pc = "idle"
    /\ ncalls < MaxTrigCalls
    /\ ncalls' = ncalls + 1
    /\ LET st == TrigSetItem([trigD |-> trigD, dev |-> devTrig, log |-> <<>>, exc |-> ""],
                             key, val)
       IN  /\ trigD' = st.trigD
           /\ devTrig' = st.dev
           /\ tlog' = st.log
           /\ call' = [op |-> "setitem", args |-> [key |-> key, val |-> val],
                       result |-> IF st.exc = "" THEN "ok" ELSE st.exc]
    /\ pc' = "idle"
    /\ UNCHANGED <<horD, cnt, chanAcqL, sweep, chan, queue, keyi, done, batchRead, nfaults>>

\* getTrigger(forceAcq); query number bad (if any) of the refresh gets an empty line
GetTrigger(forceAcq, bad) ==
    /\ pc = "idle"
    /\ ncalls < MaxTrigCalls
    /\ ncalls' = ncalls + 1
    /\ bad > 0 => (forceAcq /\ FaultsLeft)
    /\ LET r == TrigGetTrigger([trigD |-> trigD, log |-> <<>>, exc |-> "", q |-> 0,
                                 bad |-> bad], devTrig, forceAcq)
       IN  /\ bad <= r.st.q
           /\ trigD' = r.st.trigD
           /\ tlog' = r.st.log
           /\ call' = [op |-> "getTrigger", args |-> [forceAcq |-> forceAcq],
                       result |-> IF r.st.exc = "" THEN "ok" ELSE r.st.exc,
                       ret |-> r.ret]
    /\ nfaults' = IF bad > 0 THEN nfaults + 1 ELSE nfaults
    /\ pc' = "idle"
    /\ UNCHANGED <<horD, cnt, devTrig, chanAcqL, sweep, chan, queue, keyi, done, batchRead>>

\* arguments of the trigger calls that exercise the cache: every type name of
\* trigTypesD and one outside it, values that differ from the instrument's
\* power-on settings, fields of each variant
CacheLevelVals == {PyNone, PyFloat("0.001")}
CacheModeVals == {PyStr(""), PyStr("AUTO")}
CacheTypVals == {PyNone, PyStr("EDGE"), PyStr("PULS"), PyStr("VID"), PyStr("MAIN"),
                 PyStr("SLOPE")}
CacheFieldLists ==
    {<<>>,
     << <<"SOU", PyStr("CH1")>> >>,
     << <<"LINE", PyInt("1")>>, <<"SOU", PyStr("")>> >>}
CacheSetKeys == {"LEVEL", "MODE", "PULS:SOU"}
CacheSetVals == {PyNone, PyStr("CH1"), PyFloat("0.001")}

\* request maps of the acquires interleaved with the trigger calls
CacheReqMaps == {[c \in {} |-> <<>>], [c \in {1} |-> <<"FREQ">>]}

(***************************************************************************)
(* HorizontalControl.                                                      *)
(***************************************************************************)
\* horFuncD: the conversion of each horizontal field
horT == {"HOR:VIEW", "HOR:MAIN:POS", "HOR:MAIN:SCA"}
horFuncD(key) == IF key = "HOR:VIEW" THEN "None" ELSE "float"

\* HorizontalControl.__setitem__ on a context [horD, log, exc]: the command is
\* sent, self._horD is not assigned
HorSetItem(st, key, val) ==
    IF Falsy(val) THEN st
    ELSE IF key \notin horT THEN [st EXCEPT !.exc = "ValueError"]
    ELSE [st EXCEPT !.log = cmd(@, key \o " " \o val.s)]

\* HorizontalControl.__getitem__: query_val(key) with the key as the request,
\* then horFuncD indexed by the reply's last token, then the conversion of
\* that token; yields [st, ret]
HorGetItem(st, key, line) ==
    LET st1 == [st EXCEPT !.log = query(@, key, 0)]
        val == line[Len(line)]
    IN  IF line = <<>> THEN [st |-> [st1 EXCEPT !.exc = "IndexError"], ret |-> <<>>]
        ELSE IF val \notin horT THEN [st |-> [st1 EXCEPT !.exc = "KeyError"], ret |-> <<>>]
        ELSE IF horFuncD(val) = "float"
        THEN (IF val \in FloatTokens THEN [st |-> st1, ret |-> <<FloatOf(val)>>]
              ELSE [st |-> [st1 EXCEPT !.exc = "ValueError"], ret |-> <<>>])
        ELSE [st |-> st1, ret |-> <<PyStr(val)>>]

\* fields and values callers pass, and the lines the transport may deliver to
\* the read of __getitem__: none in time (an empty line), a reply in the
\* instrument's 'header value' form, a line that is a field name
HorKeys == horT \cup {"HOR:DELAY:POS"}
HorVals == {PyNone, PyStr(""), PyInt("0"), PyInt("1"), PyFloat("0.0"), PyFloat("0.001"),
            PyFloat("5e-07"), PyFloat("4.56"), PyStr("MAIN"), PyStr("WINDOW")}
HorLines == {<<>>, <<":HORIZONTAL:MAIN:SCALE", "5.0E-2">>, <<":HORIZONTAL:VIEW", "MAIN">>,
             <<":HORIZONTAL:MAIN:POSITION", "0.0E0">>, <<"HOR:VIEW">>, <<"HOR:MAIN:SCA">>}

\* horCtl[key] = val
HorSet(key, val) ==
    /\ pc = "idle"
    /\ ncalls < MaxTrigCalls
    /\ ncalls' = ncalls + 1
    /\ LET st == HorSetItem([horD |-> horD, log |-> <<>>, exc |-> ""], key, val)
       IN  /\ horD' = st.horD
           /\ tlog' = st.log
           /\ call' = [op |-> "horSet", args |-> [key |-> key, val |-> val],
                       result |-> IF st.exc = "" THEN "ok" ELSE st.exc, ret |-> <<>>]
    /\ pc' = "idle"
    /\ UNCHANGED <<cnt, trigD, devTrig, chanAcqL, sweep, chan, queue, keyi, done, batchRead,
                   nfaults>>

\* horCtl[key]
HorGet(key, line) ==
    /\ pc = "idle"
    /\ ncalls < MaxTrigCalls
    /\ ncalls' = ncalls + 1
    /\ LET r == HorGetItem([horD |-> horD, log |-> <<>>, exc |-> ""], key, line)
       IN  /\ horD' = r.st.horD
           /\ tlog' = r.st.log
           /\ call' = [op |-> "horGet", args |-> [key |-> key, val |-> PyNone],
                       result |-> IF r.st.exc = "" THEN "ok" ELSE r.st.exc, ret |-> r.ret]
    /\ pc' = "idle"
    /\ UNCHANGED <<cnt, trigD, devTrig, chanAcqL, sweep, chan, queue, keyi, done, batchRead,
                   nfaults>>

(***************************************************************************)
(* Construction of a TDS2024 client (connect, clear, identify) and its     *)
(* teardown.                                                               *)
(***************************************************************************)
\* transport events of the construction: a break signal, a line read together
\* with the line received, the flush of both serial buffers
EvBreak == [k |-> "break", s |-> "", n |-> 0]
EvLine(resp) == [k |-> "readline", s |-> resp, n |-> 0]
EvFlush == [k |-> "flush", s |-> "", n |-> 0]

\* clear(): the retry budget, and the line that acknowledges a device clear
clearRetries == 10
clearAck == "DCL\\0\\n"

\* the lines the serial port may deliver to clear: the acknowledgement, an empty
\* line, a line without the NUL byte
ClearReplies == {clearAck, "", "DCL\\n"}

\* TDS2024._idStr, and the replies to *IDN?: that string or another model's
idStr == "TEKTRONIX,TDS 2024,0,CF:91.1CT FV:v4.12 TDS2CM:CMV:v1.04\\n"
IdReplies == {idStr, "TEKTRONIX,TDS 2014,0,CF:91.1CT FV:v4.12 TDS2CM:CMV:v1.04\\n", ""}

\* the state when TDS2024(...) is called: no attribute of the client exists yet
ConstructInit ==
    /\ pc = "connect"
    /\ call = [op |-> "construct", args |-> <<>>, result |-> "running"]
    /\ tlog = <<>>
    /\ trigD = <<>>
    /\ devTrig = DevTrigInit
    /\ chanAcqL = <<>>
    /\ sweep = <<>>
    /\ chan = <<>>
    /\ queue = <<>>
    /\ keyi = 0
    /\ done = {}
    /\ batchRead = <<>>
    /\ ncalls = 0
    /\ nfaults = 0
    /\ cnt = 0
    /\ horD = <<>>

\* self.connect(), and clear() up to its loop: cnt = 10
Connect ==
    /\ pc = "connect"
    /\ cnt' = clearRetries
    /\ pc' = "clear"
    /\ UNCHANGED <<horD, call, tlog, trigD, devTrig, chanAcqL, sweep, chan, queue, keyi, done,
                   batchRead, ncalls, nfaults>>

\* one pass of clear's loop that gives up one pass late
ClearAttempt_OneMore(resp) ==
    /\ pc = "clear"
    /\ IF resp = clearAck
       THEN /\ tlog' = tlog \o <<EvBreak, EvSleep, EvLine(resp)>>
                         \o (IF cnt = 9 THEN <<EvReadline, EvFlush, EvFlush>> ELSE <<>>)
            /\ cnt' = 0
            /\ pc' = "identify"
            /\ UNCHANGED call
       ELSE /\ tlog' = tlog \o <<EvBreak, EvSleep, EvLine(resp)>>
            /\ IF cnt - 1 = -1
               THEN cnt' = 0 /\ Raise("ValueError")
               ELSE cnt' = cnt - 1 /\ UNCHANGED <<pc, call>>
    /\ UNCHANGED <<horD, trigD, devTrig, chanAcqL, sweep, chan, queue, keyi, done, batchRead,
                   ncalls, nfaults>>

\* one pass of clear's loop: sendBreak, sleep, readline; on the acknowledgement
\* (after draining a second line when this is the second pass) leave the loop,
\* else count down and raise ValueError when the budget is used up
ClearAttempt(resp) ==
    /\ pc = "clear"
    /\ IF resp = clearAck
       THEN /\ tlog' = tlog \o <<EvBreak, EvSleep, EvLine(resp)>>
                         \o (IF cnt = 9 THEN <<EvReadline, EvFlush, EvFlush>> ELSE <<>>)
            /\ cnt' = 0
            /\ pc' = "identify"
            /\ UNCHANGED call
       ELSE /\ tlog' = tlog \o <<EvBreak, EvSleep, EvLine(resp)>>
            /\ IF cnt - 1 = 0
               THEN cnt' = 0 /\ Raise("ValueError")
               ELSE cnt' = cnt - 1 /\ UNCHANGED <<pc, call>>
    /\ UNCHANGED <<horD, trigD, devTrig, chanAcqL, sweep, chan, queue, keyi, done, batchRead,
                   ncalls, nfaults>>

\* identify(), and on success the rest of __init__: the four channels, the
\* trigger and horizontal controls
Identify(resp) ==
    /\ pc = "identify"
    /\ tlog' = tlog \o <<EvSleep, EvWrite("*IDN?"), EvSleep, EvLine(resp)>>
    /\ IF resp = idStr
       THEN /\ pc' = "idle"
            /\ call' = [call EXCEPT !.result = "ok"]
            /\ chan' = [c \in Channels |-> ChannelInit]
            /\ batchRead' = [c \in Channels |-> {}]
       ELSE Raise("ValueError") /\ UNCHANGED <<chan, batchRead>>
    /\ UNCHANGED <<horD, cnt, trigD, devTrig, chanAcqL, sweep, queue, keyi, done, ncalls, nfaults>>

\* __del__ = complete: when the object is collected, after a construction that
\* returned or one that raised while the transport was connected
Del ==
    /\ pc = "idle"
    /\ call.op = "construct"
    /\ tlog' = cmd(tlog, "acquire:state off")
    /\ pc' = "deleted"
    /\ UNCHANGED <<horD, cnt, call, trigD, devTrig, chanAcqL, sweep, chan, queue, keyi, done,
                   batchRead, ncalls, nfaults>>

(***************************************************************************)
(* Measurement.val_to_string applied to a reading.                         *)
(***************************************************************************)
\* the readings rendered: zero, the decades 10^e, 5 * 10^e and -5 * 10^e, and
\* 9.999 * 10^e and 9.999996 * 10^e just below a decade, for e from below the
\* smallest prefix to above the unmeasurable cutoff
RenderExpSpan == 13
RenderVals ==
    {Dec(0, 0)}
        \cup {Dec(m, e) : m \in {1, 5, -5}, e \in (-RenderExpSpan)..(RenderExpSpan - 2)}
        \cup {Dec(9999, e - 3) : e \in (-RenderExpSpan)..(RenderExpSpan - 2)}
        \cup {Dec(9999996, e - 6) : e \in (-RenderExpSpan)..(RenderExpSpan - 2)}
RenderTags == {"FREQ", "MEAN"}

\* val_to_string(val, meas) is about to run on a constructed client
RenderInit ==
    /\ pc = "render"
    /\ \E val \in RenderVals, meas \in RenderTags :
           call = [op |-> "val_to_string", args |-> [val |-> val, meas |-> meas],
                   result |-> "running", ret |-> <<>>]
    /\ tlog = <<>>
    /\ trigD = <<>>
    /\ devTrig = DevTrigInit
    /\ chanAcqL = <<>>
    /\ sweep = <<>>
    /\ chan = [c \in Channels |-> ChannelInit]
    /\ queue = <<>>
    /\ keyi = 0
    /\ done = {}
    /\ batchRead = [c \in Channels |-> {}]
    /\ ncalls = 0
    /\ nfaults = 0
    /\ cnt = 0
    /\ horD = <<>>

\* val_to_string returns the string or raises
Render ==
    /\ pc = "render"
    /\ LET exc == ValToStringExc(call.args.val, call.args.meas)
       IN  call' = [call EXCEPT !.result = IF exc = "" THEN "ok" ELSE exc,
                                !.ret = IF exc = "" THEN <<ValToString(call.args.val,
                                                                       call.args.meas)>>
                                        ELSE <<>>]
    /\ pc' = "idle"
    /\ UNCHANGED <<horD, cnt, tlog, trigD, devTrig, chanAcqL, sweep, chan, queue, keyi, done,
                   batchRead, ncalls, nfaults>>

(***************************************************************************)
(* Specifications.                                                         *)
(***************************************************************************)
\* the reply lines the instrument or a faulty transport can deliver to the query
\* the client is about to send
SweepLines ==
    {GoodLine(":HORIZONTAL:MAIN:SCALE", DevSweepTok)} \cup BadLines(":HORIZONTAL:MAIN:SCALE")
ScaleLines ==
    IF pc = "vert"
    THEN {GoodLine(":" \o ChName(Cur) \o ":SCALE", DevScaleTok(Cur))}
             \cup BadLines(":" \o ChName(Cur) \o ":SCALE")
    ELSE {}
MeasLines ==
    {GoodLine(":MEASUREMENT:IMMED:VALUE", t) : t \in DevMeasToks}
        \cup BadLines(":MEASUREMENT:IMMED:VALUE")
PreambleReplies == IF pc = "wfmpre" THEN {DevPreamble(Cur), BadPreamble} ELSE {}
CurveReplies == IF pc = "curve" THEN {DevCurve(Cur), BadCurve} ELSE {}

\* acquisitions and measurement batches
Next ==
    \/ \E chmD \in ReqMaps, prepChannels \in BOOLEAN : AcquireCall(chmD, prepChannels)
    \/ \E bad \in 0..MaxRefreshQueries : AcqSettings(bad)
    \/ Prepare
    \/ Ready
    \/ \E line \in SweepLines : GetSweepSetting(line)
    \/ \E line \in ScaleLines : GetVerticalSetting(line)
    \/ \E c \in 1..MaxReqCh, keyL \in MeasLists : AcqMeasCall(c, keyL)
    \/ MeasBegin
    \/ MeasKeyUnsupported
    \/ \E line \in MeasLines : MeasKeyRead(line)
    \/ MeasEnd
    \/ ChanDataSource
    \/ \E fields \in PreambleReplies : ChanWfmpreQ(fields)
    \/ \E reply \in CurveReplies : ChanCurve(reply)
    \/ Complete

Spec == Init /\ [][Next]_vars

\* trigger settings written by the caller
NextTrig ==
    \/ \E level \in LevelVals, mode \in ModeVals, holdo \in HoldoVals, typ \in TypVals,
          kwL \in FieldLists : SetTrigger(level, mode, holdo, typ, kwL)
    \/ \E key \in SetKeys, val \in SetVals : SetItem(key, val)

SpecTrig == Init /\ [][NextTrig]_vars

\* trigger calls, snapshots and acquisitions against one instrument
NextCache ==
    \/ \E level \in CacheLevelVals, mode \in CacheModeVals, typ \in CacheTypVals,
          kwL \in CacheFieldLists : SetTrigger(level, mode, PyNone, typ, kwL)
    \/ \E key \in CacheSetKeys, val \in CacheSetVals : SetItem(key, val)
    \/ \E forceAcq \in BOOLEAN, bad \in 0..MaxRefreshQueries : GetTrigger(forceAcq, bad)
    \/ \E chmD \in CacheReqMaps, prepChannels \in BOOLEAN : AcquireCall(chmD, prepChannels)
    \/ \E bad \in 0..MaxRefreshQueries : AcqSettings(bad)
    \/ Prepare
    \/ Ready
    \/ \E line \in SweepLines : GetSweepSetting(line)
    \/ \E line \in ScaleLines : GetVerticalSetting(line)
    \/ MeasBegin
    \/ \E line \in MeasLines : MeasKeyRead(line)
    \/ MeasEnd
    \/ ChanDataSource
    \/ \E fields \in PreambleReplies : ChanWfmpreQ(fields)
    \/ \E reply \in CurveReplies : ChanCurve(reply)
    \/ Complete

SpecCache == Init /\ [][NextCache]_vars

\* the construction of a client and its teardown; clear's loop and the
\* statements around it run on as long as every line read returns
ClearStep == \E resp \in ClearReplies : ClearAttempt(resp)
NextConstruct ==
    \/ Connect
    \/ ClearStep
    \/ \E resp \in IdReplies : Identify(resp)
    \/ Del

\* the rendering of one reading
NextRender == Render

SpecRender == RenderInit /\ [][NextRender]_vars

SpecConstruct ==
    ConstructInit /\ [][NextConstruct]_vars /\ WF_vars(Connect) /\ WF_vars(ClearStep)

\* acquire on a client whose construction returned
LifeAcquire(chmD, prepChannels) ==
    /\ chan # <<>>
    /\ AcquireCall(chmD, prepChannels)

\* a client from its construction on: connect, clear, identify, then
\* acquisitions, or the teardown
NextLife ==
    \/ Connect
    \/ ClearStep
    \/ \E resp \in IdReplies : Identify(resp)
    \/ Del
    \/ \E chmD \in CacheReqMaps, prepChannels \in BOOLEAN : LifeAcquire(chmD, prepChannels)
    \/ \E bad \in 0..MaxRefreshQueries : AcqSettings(bad)
    \/ Prepare
    \/ Ready
    \/ \E line \in SweepLines : GetSweepSetting(line)
    \/ \E line \in ScaleLines : GetVerticalSetting(line)
    \/ MeasBegin
    \/ \E line \in MeasLines : MeasKeyRead(line)
    \/ MeasEnd
    \/ ChanDataSource
    \/ \E fields \in PreambleReplies : ChanWfmpreQ(fields)
    \/ \E reply \in CurveReplies : ChanCurve(reply)
    \/ Complete

SpecLife == ConstructInit /\ [][NextLife]_vars

\* horizontal settings written and read by the caller
NextHor ==
    \/ \E key \in HorKeys, val \in HorVals : HorSet(key, val)
    \/ \E key \in HorKeys, line \in HorLines : HorGet(key, line)

SpecHor == Init /\ [][NextHor]_vars

(***************************************************************************)
(* The trigger cache from a completed forced refresh on: setTrigger,        *)
(* __setitem__ and getTrigger calls in any order.                           *)
(***************************************************************************)
\* the trigger type the instrument holds when the refresh runs
SnapDevTypes == {"EDGE", "PULS", "VID"}

\* the state right after getTrigger(forceAcq=True) returned on a fresh client
\* while the instrument held type typ; calls are counted from here
SnapInitOf(typ) ==
    LET dev == [DevTrigInit EXCEPT !["TYPE"] = typ]
        r == TrigGetTrigger([trigD |-> <<>>, log |-> <<>>, exc |-> "", q |-> 0, bad |-> 0],
                            dev, TRUE)
    IN  /\ pc = "idle"
        /\ call = [op |-> "getTrigger", args |-> [forceAcq |-> TRUE],
                   result |-> IF r.st.exc = "" THEN "ok" ELSE r.st.exc, ret |-> r.ret]
        /\ tlog = r.st.log
        /\ trigD = r.st.trigD
        /\ devTrig = dev
        /\ chanAcqL = <<>>
        /\ sweep = <<>>
        /\ chan = [c \in Channels |-> ChannelInit]
        /\ queue = <<>>
        /\ keyi = 0
        /\ done = {}
        /\ batchRead = [c \in Channels |-> {}]
        /\ ncalls = 0
        /\ nfaults = 0
        /\ cnt = 0
        /\ horD = <<>>

SnapInit == \E typ \in SnapDevTypes : SnapInitOf(typ)

\* trigger calls against the refreshed cache
NextSnap ==
    \/ \E level \in CacheLevelVals, mode \in CacheModeVals, typ \in CacheTypVals,
          kwL \in CacheFieldLists : SetTrigger(level, mode, PyNone, typ, kwL)
    \/ \E key \in CacheSetKeys, val \in CacheSetVals : SetItem(key, val)
    \/ \E forceAcq \in BOOLEAN, bad \in 0..MaxRefreshQueries : GetTrigger(forceAcq, bad)

SpecSnap == SnapInit /\ [][NextSnap]_vars

(***************************************************************************)
(* Acquisitions from an instrument whose front panel the operator works    *)
(* between them: the vertical scale and the data width are what the        *)
(* operator left them at when the client asks.                             *)
(***************************************************************************)
\* the vertical scales (V/div) and the data widths (bytes per sample)
PanelScaleToks == {"5.0E-1", "1.0E0"}
PanelWidths == {1, 2}

\* YMULT at vertical scale vd: the two settings of the documented captures
\* (5.0E-1 V/div reports 2.0E-2, 1.0E0 V/div reports 4.0E-2)
PanelYMultTok(vd) == IF vd = DecOf("5.0E-1") THEN "2.0E-2" ELSE "4.0E-2"

\* the preamble of source c at vertical scale vd and data width w
PanelPreamble(c, vd, w) ==
    [DevPreamble(c) EXCEPT ![1] = <<"BYT_NR", ToString(w)>>,
                           ![2] = <<"BIT_NR", ToString(8 * w)>>,
                           ![13] = <<"YMULT", PanelYMultTok(vd)>>]

\* the bytes of the samples of source c at width w: at width 2 the sample is
\* the high byte and the low byte, sent first, is zero
RECURSIVE PanelBytes(_, _)
PanelBytes(samples, w) ==
    IF samples = <<>> THEN <<>>
    ELSE (IF w = 1 THEN <<Head(samples)>> ELSE <<0, Head(samples)>>)
             \o PanelBytes(Tail(samples), w)

\* the curve reply as the reads of Channel.acquire return it when the client
\* asks for w bytes per point
PanelCurve(c, w) ==
    [digit |-> "1", count |-> ToString(NPts),
     data |-> PanelBytes(DevSamples(c), w) \o <<10>>]

\* the width the client's payload read is sized by
CachedWidth(ch) == IF "BYT_NR" \in DOMAIN ch.wfmD THEN ch.wfmD["BYT_NR"].i ELSE 1

PanelScaleLines ==
    IF pc = "vert"
    THEN {GoodLine(":" \o ChName(Cur) \o ":SCALE", t) : t \in PanelScaleToks}
    ELSE {}
PanelPreambleReplies ==
    IF pc = "wfmpre"
    THEN {PanelPreamble(Cur, chan[Cur].voltsdiv[1], w) : w \in PanelWidths}
    ELSE {}
PanelCurveReplies ==
    IF pc = "curve" THEN {PanelCurve(Cur, CachedWidth(chan[Cur])), BadCurve} ELSE {}

\* request maps of these acquisitions: one or two channels, no measurements
PanelReqMaps == {[c \in {1} |-> <<>>], [c \in {1, 2} |-> <<>>]}

NextPanel ==
    \/ \E chmD \in PanelReqMaps, prepChannels \in BOOLEAN : AcquireCall(chmD, prepChannels)
    \/ AcqSettings(0)
    \/ Prepare
    \/ Ready
    \/ \E line \in SweepLines : GetSweepSetting(line)
    \/ \E line \in PanelScaleLines : GetVerticalSetting(line)
    \/ MeasBegin
    \/ MeasEnd
    \/ ChanDataSource
    \/ \E fields \in PanelPreambleReplies : ChanWfmpreQ(fields)
    \/ \E reply \in PanelCurveReplies : ChanCurve(reply)
    \/ Complete

SpecPanel == Init /\ [][NextPanel]_vars

(***************************************************************************)
(* Channel.wfmpreQ applied to a reply.                                     *)
(***************************************************************************)
\* replies to wfmpre? on channel c: the instrument's preamble, the same with a
\* field of another firmware appended or in front, replies that carry part of
\* the fields, one whose point count does not parse, one with a field that
\* has no value
PreambleInputs(c) ==
    {DevPreamble(c),
     DevPreamble(c) \o << <<"NR_FR", "1">> >>,
     << <<"FOO", "bar">> >> \o DevPreamble(c),
     << <<"YMULT", "4.0E-2">>, <<"FOO", "bar">>, <<"YUNIT", "\"Volts\"">> >>,
     << <<"FOO", "bar">> >>,
     << <<"NR_PT", "x">>, <<"YMULT", "4.0E-2">> >>,
     BadPreamble}

\* wfmD before the call: empty, or filled by an earlier refresh
PreamblePriors(c) ==
    {<<>>, WfmParse([wfmD |-> <<>>, exc |-> ""], PanelPreamble(c, Dec(1, 0), 2)).wfmD}

\* chan.wfmpreQ() is called and the instrument is about to reply
PreambleInit ==
    /\ pc = "wfmpre"
    /\ \E c \in Channels :
           \E reply \in PreambleInputs(c), pre \in PreamblePriors(c) :
               /\ call = [op |-> "wfmpreQ", args |-> [ch |-> c, reply |-> reply, pre |-> pre],
                          result |-> "running"]
               /\ chan = [x \in Channels |->
                             IF x = c THEN [ChannelInit EXCEPT !.wfmD = pre] ELSE ChannelInit]
    /\ tlog = <<>>
    /\ trigD = <<>>
    /\ devTrig = DevTrigInit
    /\ chanAcqL = <<>>
    /\ sweep = <<>>
    /\ queue = <<>>
    /\ keyi = 0
    /\ done = {}
    /\ batchRead = [c \in Channels |-> {}]
    /\ ncalls = 0
    /\ nfaults = 0
    /\ cnt = 0
    /\ horD = <<>>

\* the reply of the call in progress
WfmReplyOfCall == IF pc = "wfmpre" THEN {call.args.reply} ELSE {}

\* the refresh of one preamble
NextPreamble == \E fields \in WfmReplyOfCall : ChanWfmpreQ(fields)

SpecPreamble == PreambleInit /\ [][NextPreamble]_vars

\* chan.wfmpreQ() is called on channel c; the instrument will reply with reply
WfmpreCall(c, reply) ==
    /\ Begin("wfmpreQ", [ch |-> c, reply |-> reply, pre |-> chan[c].wfmD])
    /\ pc' = "wfmpre"
    /\ UNCHANGED <<horD, cnt, trigD, devTrig, chanAcqL, sweep, chan, queue, keyi, batchRead,
                   nfaults>>

\* preamble refreshes one after the other on a fresh client
NextRefresh ==
    \/ \E c \in 1..MaxReqCh : \E reply \in PreambleInputs(c) : WfmpreCall(c, reply)
    \/ \E fields \in WfmReplyOfCall : ChanWfmpreQ(fields)

SpecRefresh == Init /\ [][NextRefresh]_vars


(***************************************************************************)
(* Properties.                                                             *)
(***************************************************************************)
Range(f) == {f[i] : i \in DOMAIN f}
Max(S) == CHOOSE x \in S : \A y \in S : y <= x

\* positions of the log that hold a write of command s
WritePos(log, s) == {i \in 1..Len(log) : log[i].k = "write" /\ log[i].s = s}

\* every value a caller of the trigger interface passes in this model
AllVals == LevelVals \cup ModeVals \cup HoldoVals \cup TypVals \cup SetVals
               \cup UNION {{kwL[i][2] : i \in 1..Len(kwL)} : kwL \in FieldLists}

\* an empty or absent value: None or the empty string
IsEmptyVal(v) == v = PyNone \/ v = PyStr("")

\* the cache entry of a key: <<value>>, or <<>> when the key is absent
CacheEntry(d, k) == IF k \in DOMAIN d THEN <<d[k]>> ELSE <<>>

\* the commands that set trigger field key to some value
SetCmds(key) == {"TRIGGER:MAIN:" \o key \o " " \o v.s : v \in AllVals}

\* C1: every channel whose curve was decoded in this acquire had its preamble
\* queried (wfmpre?) after the DATA:SOURCE command that last selected it, and
\* before the curve was read.
C1_PreambleQueriedAfterSelect ==
    call.op = "acquire" =>
        \A c \in done :
            \E i \in WritePos(tlog, "DATA:SOURCE " \o ChName(c)) :
                /\ \A k \in WritePos(tlog, "DATA:SOURCE " \o ChName(c)) : k <= i
                /\ \E j \in WritePos(tlog, "wfmpre?") :
                       /\ i < j
                       /\ \E k \in WritePos(tlog, "curv?") :
                              /\ j < k
                              /\ \A x \in (i + 1)..(k - 1) :
                                     tlog[x].k = "write" => tlog[x].s = "wfmpre?"

\* C2: in a setTrigger call no command follows a TRIGGER:MAIN:TYPE command, and a
\* call with a non-empty type that returns has written the TYPE command of its
\* type as its last command, after all its type-specific field commands.
C2_TypeWrittenLast ==
    call.op = "setTrigger" =>
        LET w == Writes(tlog)
        IN  /\ \A i \in 1..Len(w) : w[i] \in SetCmds("TYPE") => i = Len(w)
            /\ (call.result = "ok" /\ ~IsEmptyVal(call.args.typ)) =>
                   /\ Len(w) > 0
                   /\ w[Len(w)] = "TRIGGER:MAIN:TYPE " \o call.args.typ.s
                   /\ \A i \in 1..Len(call.args.kwL) :
                          ~IsEmptyVal(call.args.kwL[i][2]) =>
                              \E j \in 1..(Len(w) - 1) :
                                  w[j] = "TRIGGER:MAIN:" \o call.args.typ.s \o ":"
                                             \o call.args.kwL[i][1] \o " "
                                             \o call.args.kwL[i][2].s

C2_Witness ==
    /\ call.op = "setTrigger"
    /\ call.result = "ok"
    /\ call.args.typ = PyStr("EDGE")
    /\ Len(call.args.kwL) = 2
    /\ Len(Writes(tlog)) >= 4

\* C3: a set of a trigger field with None or '' writes nothing and changes no cache
\* entry; in setTrigger every argument that is None or '' writes no command for
\* its field and leaves the field's cache entry as it was.
C3_EmptySetIsNoOp ==
    [][/\ (call'.op = "setitem" /\ IsEmptyVal(call'.args.val)) =>
              /\ tlog' = <<>>
              /\ trigD' = trigD
              /\ call'.result = "ok"
       /\ call'.op = "setTrigger" =>
              LET a == call'.args
                  unset(key) == /\ SetCmds(key) \cap Range(Writes(tlog')) = {}
                                /\ CacheEntry(trigD', key) = CacheEntry(trigD, key)
              IN  /\ IsEmptyVal(a.level) => unset("LEVEL")
                  /\ IsEmptyVal(a.mode) => unset("MODE")
                  /\ IsEmptyVal(a.holdo) => unset("HOLDO")
                  /\ IsEmptyVal(a.typ) => unset("TYPE")
                  /\ \A i \in 1..Len(a.kwL) :
                         (a.typ.s \in DOMAIN trigTypesD /\ IsEmptyVal(a.kwL[i][2])) =>
                             unset(a.typ.s \o ":" \o a.kwL[i][1])
      ]_vars

C3_Witness ==
    /\ call.op = "setitem"
    /\ IsEmptyVal(call.args.val)
    /\ call.args.key = "LEVEL"
    /\ "LEVEL" \in DOMAIN trigD
    /\ tlog = <<>>

\* C4: a set of a vocabulary field with a present value (anything but None and '',
\* so also the number zero) writes exactly the one command
\* 'TRIGGER:MAIN:<field> <value>' and stores the value in the cache.
C4_PresentValueWrittenThrough ==
    [][(/\ call'.op = "setitem"
        /\ call'.args.key \in trigT
        /\ ~IsEmptyVal(call'.args.val)) =>
           /\ Writes(tlog') = <<"TRIGGER:MAIN:" \o call'.args.key \o " " \o call'.args.val.s>>
           /\ CacheEntry(trigD', call'.args.key) = <<call'.args.val>>
      ]_vars

\* the request of a batch names a tag outside the twelve supported ones
HasUnsupported(keyL) == \E i \in 1..Len(keyL) : upper(keyL[i]) \notin mtypeS

\* C5: a measurement batch whose list holds an unsupported tag writes nothing to
\* the transport, fails with the unsupported-tag error and leaves the channel's
\* measurement state (values, strings, requested list, reset flag) as it was.
C5_UnsupportedTagFailsFast ==
    (call.op = "acqMeas" /\ HasUnsupported(call.args.keyL)) =>
        /\ Writes(tlog) = <<>>
        /\ pc = "idle" =>
               /\ call.result = "ValueError"
               /\ chan[call.args.ch].ms = call.args.pre

\* C6: every measurement type the latest batch of a channel has not read holds
\* the sentinel, from the start of that batch on.
C6_UnreadTypesHoldSentinel ==
    \A c \in Channels :
        (pc # "measBegin" \/ Cur # c) =>
            \A t \in mtypeS \ batchRead[c] : chan[c].ms.val[t] = mNAN

\* C7: after a batch that failed partway, the strings getMeasStrL/getMeasStrD
\* look up and the stored values are not a mixture: beside a result of the
\* failed batch there is no string and no value left from an earlier batch.
C7_NoMixtureAfterFailedBatch ==
    (call.op = "acqMeas" /\ pc = "idle" /\ call.result # "ok") =>
        LET c == call.args.ch
            ms == chan[c].ms
        IN  batchRead[c] # {} =>
                /\ \A i \in 1..Len(ms.measL) :
                       ms.measL[i] \notin batchRead[c] => ms.measL[i] \notin DOMAIN ms.str
                /\ \A t \in mtypeS \ batchRead[c] : ms.val[t] = mNAN

\* the commands that name channel c
ChanCmds(c) ==
    {ChName(c) \o ":scale?", "DATA:SOURCE " \o ChName(c)}
        \cup UNION {{"measu:imm:typ " \o upper(l[i]) \o ";:measu:imm:sou " \o ChName(c) :
                         i \in 1..Len(l)} : l \in MeasLists}

C9_AbortedAcquireMarksCompletedOnly ==
    (call.op = "acquire" /\ pc = "idle" /\ call.result # "ok" /\ queue # <<>>) =>
        /\ ChannelWasAcqExc = ""
        /\ \A c \in Channels : channelWasAcq(c) <=> c \in done

\* the write and console events of the log, in order: written commands, and
\* "<input>" for the wait on the operator
RECURSIVE Steps(_)
Steps(log) ==
    IF log = <<>> THEN <<>>
    ELSE (CASE Head(log).k = "write" -> <<Head(log).s>>
            [] Head(log).k = "input" -> <<"<input>">>
            [] OTHER -> <<>>) \o Steps(Tail(log))

\* the trigger queries
TrigQueries ==
    {"TRIG:STATE?"} \cup {"TRIGGER:MAIN:" \o k \o "?" : k \in trigT \ {"STATE"}}

\* the I/O of one channel of an acquire: vertical query, batch, curve
RECURSIVE MeasSteps(_, _)
MeasSteps(c, keyL) ==
    IF keyL = <<>> THEN <<>>
    ELSE <<"measu:imm:typ " \o upper(Head(keyL)) \o ";:measu:imm:sou " \o ChName(c),
           "measu:imm:val?">> \o MeasSteps(c, Tail(keyL))
ChanSteps(c, keyL, prep) ==
    <<ChName(c) \o ":scale?">> \o MeasSteps(c, keyL) \o <<"DATA:SOURCE " \o ChName(c)>>
        \o (IF prep THEN <<"wfmpre?">> ELSE <<>>) \o <<"curv?">>

\* the channels of the request one after the other, in the order given
RECURSIVE AllChanSteps(_, _, _)
AllChanSteps(order, chmD, prep) ==
    IF order = <<>> THEN <<>>
    ELSE ChanSteps(Head(order), chmD[Head(order)], prep)
             \o AllChanSteps(Tail(order), chmD, prep)

\* the orders in which the channels of S can be visited
Orders(S) ==
    {o \in [1..Cardinality(S) -> S] : \A i, j \in 1..Cardinality(S) : i # j => o[i] # o[j]}

\* the I/O that belongs to a channel
ChanIO == UNION {ChanCmds(c) : c \in Channels} \cup {"measu:imm:val?", "wfmpre?", "curv?"}

\* C10: a completed acquire has done, in this order: trigger queries only, the arm
\* command, the wait for the operator, one horizontal-scale query, the
\* requested channels one after the other (vertical query, batch, curve), and
\* the disarm command last; in no acquire does channel I/O come before the
\* operator's signal or after the disarm.
C10_AcquireStepOrder ==
    call.op = "acquire" =>
        LET w == Steps(tlog)
        IN  /\ \A i \in 1..Len(w) :
                   w[i] \in ChanIO =>
                       /\ \E j \in 1..(i - 1) : w[j] = "<input>"
                       /\ \A j \in 1..(i - 1) : w[j] # "acquire:state off"
            /\ call.result = "ok" =>
                   \E a \in 1..Len(w) :
                       /\ w[a] = "acquire:state on"
                       /\ a > Len(trigOrder.MAIN) + 1
                       /\ w[1] = "TRIG:STATE?"
                       /\ \A i \in 1..(a - 1) : w[i] \in TrigQueries
                       /\ \E o \in Orders(DOMAIN call.args.chmD) :
                              SubSeq(w, a, Len(w)) =
                                  <<"acquire:state on", "<input>", "hor:mai:sca?">>
                                      \o AllChanSteps(o, call.args.chmD, call.args.prep)
                                      \o <<"acquire:state off">>

C10_Witness ==
    /\ call.op = "acquire"
    /\ call.result = "ok"
    /\ DOMAIN call.args.chmD = {1, 2}
    /\ call.args.chmD[1] = <<"freq", "MEAN">>
    /\ done = {1, 2}
    /\ tlog[Len(tlog) - 1] = EvWrite("acquire:state off")

\* the queries a refresh sends when the instrument reports trigger type typ
RefreshQueries(typ) ==
    {"TRIG:STATE?"} \cup {"TRIGGER:MAIN:" \o k \o "?" : k \in mainD}
        \cup (IF typ = "MAIN" THEN {}
              ELSE {"TRIGGER:MAIN:" \o typ \o ":" \o k \o "?" : k \in trigTypesD[typ]})

\* the cache keys a refresh of type typ fills
RefreshKeys(typ) ==
    {"STATE"} \cup mainD
        \cup (IF typ = "MAIN" THEN {} ELSE {typ \o ":" \o k : k \in trigTypesD[typ]})

\* a forced refresh has just completed: in getTrigger, or as the first step of acquire
RefreshDone ==
    \/ call.op = "getTrigger" /\ call.args.forceAcq /\ call.result = "ok"
    \/ call.op = "acquire" /\ pc = "prepare"

\* C11: a getTrigger call with forceAcq false leaves the transport untouched (no
\* write, no read, no other transport event), whether it returns a snapshot or
\* fails on a cache that lacks a key.
C11_UnforcedGetTouchesNoTransport ==
    (call.op = "getTrigger" /\ ~call.args.forceAcq) => tlog = <<>>

C11_Witness ==
    /\ call.op = "getTrigger"
    /\ ~call.args.forceAcq
    /\ call.result = "ok"
    /\ DOMAIN call.ret = snapshotCommon \cup edgeD
    /\ tlog = <<>>

\* C12: a completed forced refresh has queried the trigger state first, every
\* field of the common block and every field of the variant named by the type
\* the instrument reported in this refresh, and nothing else; every queried
\* field's cache entry holds the instrument's reply, converted.
C12_ForcedRefreshQueriesActiveVariant ==
    RefreshDone =>
        LET w == Writes(tlog)
            typ == devTrig["TYPE"]
        IN  /\ trigD["TYPE"] = PyStr(typ)
            /\ Len(w) > 0
            /\ w[1] = "TRIG:STATE?"
            /\ Range(w) = RefreshQueries(typ)
            /\ \A k \in RefreshKeys(typ) :
                   /\ k \in DOMAIN trigD
                   /\ trigD[k] = TrigConv(k, devTrig[k])

C12_Witness ==
    /\ call.op = "getTrigger"
    /\ call.args.forceAcq
    /\ call.result = "ok"
    /\ devTrig["TYPE"] = "PULS"
    /\ Len(Writes(tlog)) = 1 + Cardinality(mainD) + Cardinality(pulsD)
    /\ "TRIGGER:MAIN:PULS:WIDTH:WIDTH?" \in Range(Writes(tlog))

\* the fields a snapshot of type typ holds beside the common ones ("MAIN" has none)
VariantFields(typ) == IF typ = "MAIN" THEN {} ELSE trigTypesD[typ]

\* C13: when setTrigger has accepted a type T and a forced getTrigger follows with
\* every reply delivered, the getTrigger returns a snapshot whose TYPE is T and
\* whose keys are the common fields plus exactly the fields of variant T.
C13_SnapshotHasSetTypeAndItsVariant ==
    [][(/\ call.op = "setTrigger"
        /\ call.result = "ok"
        /\ ~IsEmptyVal(call.args.typ)
        /\ call'.op = "getTrigger"
        /\ call'.args.forceAcq
        /\ nfaults' = nfaults) =>
           /\ call'.result = "ok"
           /\ call'.ret # <<>>
           /\ call'.ret["TYPE"] = call.args.typ
           /\ DOMAIN call'.ret = snapshotCommon \cup VariantFields(call.args.typ.s)
      ]_vars

\* the cached value of key k is the value the instrument holds for k: its wire
\* form is the instrument's token, or the token converts to it
Mirrors(k) ==
    \/ trigD[k].s = devTrig[k]
    \/ TrigConvOk(k, devTrig[k]) /\ TrigConv(k, devTrig[k]) = trigD[k]

\* C14: at every point of every sequence of setTrigger, field sets, getTrigger
\* (forced or not) and acquire, every trigger field present in the cache holds
\* the value the instrument holds for it (the instrument's settings change only
\* by the commands of this client).
C14_CacheMirrorsInstrument ==
    \A k \in DOMAIN trigD : k \in DOMAIN devTrig /\ Mirrors(k)

C14_Witness ==
    /\ call.op = "setTrigger"
    /\ call.result = "ok"
    /\ call.args.level = PyFloat("0.001")
    /\ snapshotCommon \subseteq DOMAIN trigD
    /\ trigD["LEVEL"] = PyFloat("0.001")
    /\ devTrig["LEVEL"] = "0.001"
    /\ trigD["HOLDO"] = PyFloat("5e-07")

\* the commands that set the trigger type
TypeCmds == {"TRIGGER:MAIN:TYPE " \o v.s : v \in TypVals \cup CacheTypVals}

\* the step belongs to an operation other than a setTrigger with a non-empty type
NotTypeSetting == ~(call'.op = "setTrigger" /\ ~IsEmptyVal(call'.args.typ))

BadTypeOrField(a) ==
    /\ ~IsEmptyVal(a.typ)
    /\ \/ a.typ.s \notin DOMAIN trigTypesD
       \/ \E i \in 1..Len(a.kwL) : a.kwL[i][1] \notin trigTypesD[a.typ.s]

\* C17: a setTrigger call that names an unrecognized type, or a type-specific
\* field outside the requested type's field set, raises, has written no command
\* to the transport and leaves the cached trigger state as it was.
C17_BadTypeOrFieldWritesNothing ==
    [][(call'.op = "setTrigger" /\ BadTypeOrField(call'.args)) =>
           /\ call'.result \in {"TypeError", "IndexError"}
           /\ tlog' = <<>>
           /\ trigD' = trigD
      ]_vars

\* key is a field of a variant other than typ
OtherVariantField(key, typ) ==
    \E t \in {"EDGE", "PULS", "VID"} \ {typ} :
        \E k \in trigTypesD[t] : key = t \o ":" \o k

\* C18: a set of a field that belongs to a variant other than the active trigger
\* type (the type held in the cache) is rejected and writes no command.
C18_OtherVariantFieldRejected ==
    [][(/\ call'.op = "setitem"
        /\ ~Falsy(call'.args.val)
        /\ "TYPE" \in DOMAIN trigD
        /\ OtherVariantField(call'.args.key, trigD["TYPE"].s)) =>
           /\ call'.result # "ok"
           /\ tlog' = <<>>
      ]_vars

\* the positions of the break signals in the log, and the line read in the
\* attempt that starts with the break at position i
BreakPos(log) == {i \in 1..Len(log) : log[i].k = "break"}
AttemptReply(log, i) == log[i + 2].s

\* clear has raised: the construction failed before *IDN? was sent
ClearFailed ==
    /\ call.op = "construct"
    /\ call.result = "ValueError"
    /\ WritePos(tlog, "*IDN?") = {}

\* what clear has done so far, at every point of the construction
ClearSafe ==
    LET B == BreakPos(tlog)
    IN  /\ Cardinality(B) <= clearRetries
        /\ \A i \in B :
               /\ i + 2 <= Len(tlog)
               /\ tlog[i + 1] = EvSleep
               /\ tlog[i + 2].k = "readline"
               /\ \A j \in B : j > i => j > i + 2
        /\ pc = "clear" =>
               /\ Cardinality(B) < clearRetries
               /\ cnt = clearRetries - Cardinality(B)
               /\ \A i \in B : AttemptReply(tlog, i) # clearAck
        /\ pc = "identify" =>
               \E i \in B :
                   /\ AttemptReply(tlog, i) = clearAck
                   /\ \A j \in B : j <= i /\ (j < i => AttemptReply(tlog, j) # clearAck)
        /\ ClearFailed =>
               /\ Cardinality(B) = clearRetries
               /\ \A i \in B : AttemptReply(tlog, i) # clearAck

\* C15: clear sends one break per attempt, each followed by the settle delay and
\* one line read; it returns at the first attempt whose line is the
\* acknowledgement; it raises exactly when 10 attempts in a row read another
\* line; it never sends more than 10 breaks, and, every line read returning, it
\* terminates.
C15_ClearBoundedRetries ==
    /\ []ClearSafe
    /\ <>(pc \notin {"connect", "clear"})

C15_Witness ==
    /\ ClearFailed
    /\ pc = "idle"
    /\ Cardinality(BreakPos(tlog)) = clearRetries
    /\ Len(tlog) = 3 * clearRetries

\* C16: until identification has succeeded the client writes nothing but the
\* *IDN? query (and sends breaks); once the reply to *IDN? was not the expected
\* string, construction has failed and the client never writes anything more,
\* teardown included.
C16_NoWriteWithoutIdentification ==
    /\ (call.op = "construct" /\ call.result = "running") =>
           Range(Writes(tlog)) \subseteq {"*IDN?"}
    /\ (call.op = "construct" /\ call.result # "running" /\ WritePos(tlog, "*IDN?") # {}
           /\ tlog[Max(WritePos(tlog, "*IDN?")) + 2].s # idStr) =>
           /\ call.result = "ValueError"
           /\ Range(Writes(tlog)) \subseteq {"*IDN?"}

\* the prefixes of the documented table
tablePrefixes == {"p", "n", "u", "m", " ", "k", "M"}

\* val lies between the smallest prefix (10^-12) and the unmeasurable cutoff (10^10)
InPrefixRange(val) == DecGE10(val, -12) /\ ~DecGT10(val, 10)

\* C20: val_to_string returns without raising for every reading; zero is
\* rendered unscaled; a nonzero reading between 10^-12 and the cutoff that is
\* not rendered as the placeholder gets a prefix of the table and a printed
\* magnitude in [1, 1000).
C20_ScaledMagnitudeInRange ==
    (call.op = "val_to_string" /\ pc = "idle") =>
        LET val == call.args.val
        IN  /\ val.m = 0 =>
                   /\ call.result = "ok"
                   /\ call.ret[1].num = Dec(0, 0)
                   /\ call.ret[1].suf = " "
            /\ (val.m # 0 /\ InPrefixRange(val)) =>
                   /\ call.result = "ok"
                   /\ call.ret[1].kind = "value" =>
                          /\ call.ret[1].suf \in tablePrefixes
                          /\ DecGE10(call.ret[1].num, 0)
                          /\ ~DecGE10(call.ret[1].num, 3)

\* the last event of a log
LastEv(log) == log[Len(log)]

\* this step reads the value of a measurement
MeasReadStep == pc = "measKey" /\ tlog' # tlog

\* C21: when the instrument replies 9.9E37 to the value query of a requested
\* type, the batch goes on: nothing is raised, the sentinel is stored as the
\* type's value, the type's display string is the unmeasurable placeholder, and
\* the loop moves to the next requested type.
C21_SentinelStoredAsPlaceholder ==
    [][(MeasReadStep /\ LastEv(tlog').s = "9.9E37") =>
           LET key == chan[Cur].ms.measL[keyi]
           IN  /\ pc' = "measKey"
               /\ call' = call
               /\ keyi' = keyi + 1
               /\ chan'[Cur].ms.val[key] = mNAN
               /\ key \in DOMAIN chan'[Cur].ms.str
               /\ chan'[Cur].ms.str[key].kind = "unmeasurable"
               /\ chan'[Cur].ms.str[key].meas = key
      ]_vars

C21_Witness ==
    /\ call.op = "acqMeas"
    /\ call.result = "ok"
    /\ chan[call.args.ch].ms.measL = <<"FREQ", "MEAN">>
    /\ chan[call.args.ch].ms.val["FREQ"] = mNAN
    /\ chan[call.args.ch].ms.str["FREQ"].kind = "unmeasurable"
    /\ chan[call.args.ch].ms.val["MEAN"] = Dec(14, -4)
    /\ chan[call.args.ch].ms.str["MEAN"].kind = "value"
    /\ Len(Writes(tlog)) = 4

\* the exception query_float raises on a line whose token after the header is tok
FloatFault(tok) == IF tok = "" THEN "IndexError" ELSE "ValueError"

\* C24: a reply to the measurement-value query that has no second token, or
\* whose second token is not a number, ends the call in progress (a batch or
\* the acquire around it) with the exception query_float raised, nothing
\* stored; that one select and one value query are all the step has sent, and
\* the failed call sends nothing after the faulty read.
C24_BadValueReplyPropagates ==
    /\ [][(MeasReadStep /\ LastEv(tlog').s \notin DecTokens) =>
              /\ pc' = "idle"
              /\ call'.result = FloatFault(LastEv(tlog').s)
              /\ call'.op = call.op
              /\ chan' = chan
              /\ Len(tlog') = Len(tlog) + 5
              /\ Len(Writes(tlog')) = Len(Writes(tlog)) + 2
       ]_vars
    /\ []((/\ call.op \in {"acquire", "acqMeas"}
           /\ tlog # <<>>
           /\ LastEv(tlog).k = "readline"
           /\ LastEv(tlog).s \notin DecTokens
           /\ WritePos(tlog, "measu:imm:val?") # {}
           /\ Max(WritePos(tlog, "measu:imm:val?")) = Len(tlog) - 2) =>
              /\ pc = "idle"
              /\ call.result \in {"IndexError", "ValueError"})

C24_Witness ==
    /\ call.op = "acquire"
    /\ pc = "idle"
    /\ call.result = "ValueError"
    /\ LastEv(tlog).s = "?"
    /\ Cardinality(WritePos(tlog, "measu:imm:val?")) = 2
    /\ queue # <<>>

\* C29: the commands a measurement batch has written are, for the requested
\* types in request order, one select command naming the type and the batch's
\* channel followed by one value query, none repeated: at every point a prefix
\* of that list, and the whole list once the batch has returned; getMeasStrL
\* then returns one string per requested type, in request order.
C29_OneSelectOneQueryPerType ==
    call.op = "acqMeas" =>
        LET w == Writes(tlog)
            full == MeasSteps(call.args.ch, call.args.keyL)
            ms == chan[call.args.ch].ms
        IN  /\ Len(w) <= Len(full)
            /\ Len(w) % 2 = 0
            /\ w = SubSeq(full, 1, Len(w))
            /\ call.result = "ok" =>
                   /\ w = full
                   /\ GetMeasStrLLExc(ms) = ""
                   /\ Len(GetMeasStrLL(ms)) = Len(call.args.keyL)
                   /\ \A i \in 1..Len(call.args.keyL) :
                          GetMeasStrLL(ms)[i].meas = upper(call.args.keyL[i])

C29_Witness ==
    /\ call.op = "acqMeas"
    /\ call.result = "ok"
    /\ call.args.keyL = <<"freq", "MEAN">>
    /\ Writes(tlog) = <<"measu:imm:typ FREQ;:measu:imm:sou CH2", "measu:imm:val?",
                        "measu:imm:typ MEAN;:measu:imm:sou CH2", "measu:imm:val?">>
    /\ Len(GetMeasStrLL(chan[2].ms)) = 2

\* the requests sent with query() and no byte count, and the one sent with
\* nBytes=9; every other write is a cmd()
LineQueries ==
    TrigQueries \cup {"hor:mai:sca?", "measu:imm:val?", "wfmpre?"}
        \cup {ChName(c) \o ":scale?" : c \in Channels}
ByteQueries == {"curv?"}

\* the events of the log between the write at position i and the next write
AfterWrite(log, i) ==
    LET later == {j \in (i + 1)..Len(log) : log[j].k = "write"}
        stop == IF later = {} THEN Len(log) + 1
                ELSE CHOOSE j \in later : \A x \in later : j <= x
    IN  SubSeq(log, i + 1, stop - 1)

\* the read events of a sequence of events, in order
RECURSIVE Reads(_)
Reads(log) ==
    IF log = <<>> THEN <<>>
    ELSE (IF Head(log).k \in {"read", "readline"} THEN <<Head(log)>> ELSE <<>>)
             \o Reads(Tail(log))

\* C27: a query without byte count is followed by exactly one line read and no
\* byte read; the query with byte count 9 is followed by one read of 9 bytes
\* and by no line read (the two reads Channel.acquire issues itself come after
\* it); a cmd is followed by no read of either kind.
C27_QueryReadsOnceCmdNever ==
    \A i \in 1..Len(tlog) :
        tlog[i].k = "write" =>
            LET r == Reads(AfterWrite(tlog, i))
            IN  CASE tlog[i].s \in LineQueries ->
                         Len(r) = 1 /\ r[1].k = "readline"
                  [] tlog[i].s \in ByteQueries ->
                         /\ Len(r) \in 1..3
                         /\ r[1] = EvRead(9)
                         /\ \A j \in 1..Len(r) : r[j].k = "read"
                  [] OTHER -> r = <<>>

C27_Witness ==
    /\ call.op = "acquire"
    /\ call.result = "ok"
    /\ call.args.prep
    /\ done = {1}
    /\ Len(Reads(tlog)) = Len(Writes(tlog)) - 3 + 2
    /\ Len(Reads(AfterWrite(tlog, Max(WritePos(tlog, "curv?"))))) = 3
    /\ Reads(AfterWrite(tlog, Max(WritePos(tlog, "DATA:SOURCE CH1")))) = <<>>

\* C26: in the transport log of the construction (clear, identify) and of
\* every later call (cmd, query, the curve read), each write and each break is
\* directly followed by the settle delay, so no read comes after a write or a
\* break without the delay in between.
C26_SettleDelayBeforeRead ==
    /\ \A i \in 1..Len(tlog) :
           tlog[i].k \in {"write", "break"} => (i < Len(tlog) /\ tlog[i + 1] = EvSleep)
    /\ \A j \in 1..Len(tlog) :
           tlog[j].k \in {"read", "readline"} =>
               \A i \in 1..(j - 1) :
                   tlog[i].k \in {"write", "break"} =>
                       \E k \in (i + 1)..(j - 1) : tlog[k] = EvSleep

C26_Witness ==
    /\ call.op = "acquire"
    /\ call.result = "ok"
    /\ call.args.prep
    /\ done = {1}
    /\ ncalls = 1
    /\ Cardinality({i \in 1..Len(tlog) : tlog[i] = EvSleep}) = Len(Writes(tlog))
    /\ \E i \in 1..Len(tlog) : tlog[i] = EvRead(9)

\* the constants of the preamble the instrument reports for source c at the
\* vertical scale vd
PanelConst(c, vd, name) ==
    LET p == PanelPreamble(c, vd, 1)
    IN  DecOf(p[CHOOSE i \in 1..Len(p) : p[i][1] = name][2])

\* C22: every channel decoded in an acquire (one byte per sample) holds, for
\* each raw sample r, the physical entry (r - YOFF) * YMULT + YZERO and the
\* display-relative entry r * YMULT / voltsdiv, where YOFF, YMULT and YZERO
\* are those of the instrument's preamble at the time of this acquire and
\* voltsdiv is the vertical setting read in this acquire.
C22_TracesFromCurrentPreamble ==
    call.op = "acquire" =>
        \A c \in done :
            chan[c].wfmD["BYT_NR"].i = 1 =>
                LET vd == chan[c].voltsdiv[1]
                    r == DevSamples(c)
                    yoff == PanelConst(c, vd, "YOFF")
                    ymult == PanelConst(c, vd, "YMULT")
                    yzero == PanelConst(c, vd, "YZERO")
                IN  /\ chan[c].trace =
                           <<[i \in 1..NPts |->
                                DecAdd(DecMul(DecSub(DecOfInt(r[i]), yoff), ymult), yzero)]>>
                    /\ chan[c].trace_undisplaced =
                           <<[i \in 1..NPts |->
                                [num |-> DecMul(DecOfInt(r[i]), ymult), den |-> vd]]>>

\* the preamble of channel c was refreshed in the acquire in progress (or the
\* last one): c was decoded, or the acquire was aborted on c after its wfmpre?
\* query
RefreshedInCall(c) ==
    /\ call.op = "acquire"
    /\ call.args.prep
    /\ \/ c \in done
       \/ /\ pc = "idle"
          /\ queue # <<>>
          /\ Head(queue) = c
          /\ \E i \in WritePos(tlog, "DATA:SOURCE " \o ChName(c)) :
                 \E j \in WritePos(tlog, "wfmpre?") : j > i

\* C23: from the refresh of a channel's preamble on, also when the curve read
\* that follows fails, the channel's two traces are absent or are the ones
\* computed from the refreshed preamble.
C23_TracesInvalidatedWithPreamble ==
    \A c \in Channels :
        RefreshedInCall(c) =>
            \/ chan[c].trace = <<>> /\ chan[c].trace_undisplaced = <<>>
            \/ LET d == ChanDecode(chan[c], PanelCurve(c, CachedWidth(chan[c])).data)
               IN  /\ chan[c].trace = d.trace
                   /\ chan[c].trace_undisplaced = d.trace_undisplaced

\* this step is a curve read that decodes
CurveDecodeStep == pc = "curve" /\ pc' \in {"vert", "complete"}

\* C28: a curve read that decodes has read 9 header bytes, then the 1 byte of
\* the count field, then BYT_NR * N + 1 payload bytes for the N points the
\* header announces, and stores two traces of N samples each, N being the
\* point count the channel reports (points).
C28_CurveReadSizesAndLength ==
    [][CurveDecodeStep =>
           LET c == Cur
               r == Reads(SubSeq(tlog', Len(tlog) + 1, Len(tlog')))
           IN  /\ r = <<EvRead(9), EvRead(1), EvRead(CachedWidth(chan[c]) * NPts + 1)>>
               /\ Len(chan'[c].trace[1]) = NPts
               /\ Len(chan'[c].trace_undisplaced[1]) = NPts
               /\ chan'[c].points = <<NPts>>
      ]_vars

\* C25: a set of a horizontal field with a present value writes the one
\* command '<field> <value>' and records the value in the horizontal cache;
\* a read of a field that follows a set of that field returns the value set,
\* and touches the transport no more than a read of a cached field does.
C25_HorizontalWriteThroughCache ==
    [][/\ (/\ call'.op = "horSet"
            /\ call'.args.key \in horT
            /\ ~IsEmptyVal(call'.args.val)) =>
              /\ Writes(tlog') = <<call'.args.key \o " " \o call'.args.val.s>>
              /\ CacheEntry(horD', call'.args.key) = <<call'.args.val>>
       /\ (/\ call'.op = "horGet"
            /\ call.op = "horSet"
            /\ call.result = "ok"
            /\ call.args.key = call'.args.key
            /\ call.args.key \in horT
            /\ ~IsEmptyVal(call.args.val)) =>
              /\ tlog' = <<>>
              /\ call'.result = "ok"
              /\ call'.ret = <<call.args.val>>
      ]_vars

\* every field of the reply is 'NAME value', and the value of a vocabulary
\* field is one the field's conversion accepts
WellFormedReply(reply) ==
    \A i \in 1..Len(reply) :
        /\ Len(reply[i]) = 2
        /\ reply[i][1] \in wfmT => WfmConvOk(reply[i][1], reply[i][2])

\* the positions of the reply that carry field name
FieldPos(reply, name) == {i \in 1..Len(reply) : reply[i][1] = name}

\* C30: after wfmpreQ on a reply of 'NAME value' fields the preamble cache
\* holds only vocabulary names; every vocabulary field of the reply holds the
\* reply's value, converted; every other entry is as it was before the call;
\* and no error is raised unless the cache still lacks the point count (so a
\* field outside the vocabulary raises nothing and changes nothing).
C30_PreambleKeepsVocabularyOnly ==
    (call.op = "wfmpreQ" /\ pc # "wfmpre" /\ WellFormedReply(call.args.reply)) =>
        LET reply == call.args.reply
            pre == call.args.pre
            wfmD == chan[call.args.ch].wfmD
        IN  /\ DOMAIN wfmD \subseteq wfmT
            /\ \A name \in wfmT :
                   IF FieldPos(reply, name) # {}
                   THEN /\ name \in DOMAIN wfmD
                        /\ wfmD[name] = WfmConv(name, reply[Max(FieldPos(reply, name))][2])
                   ELSE CacheEntry(wfmD, name) = CacheEntry(pre, name)
            /\ \/ call.result = "ok"
               \/ call.result = "KeyError" /\ "NR_PT" \notin DOMAIN wfmD

C30_Witness ==
    /\ call.op = "wfmpreQ"
    /\ call.result = "ok"
    /\ call.args.pre # <<>>
    /\ FieldPos(call.args.reply, "FOO") # {}
    /\ FieldPos(call.args.reply, "NR_PT") = {}
    /\ chan[call.args.ch].wfmD["YMULT"] = WFloat(Dec(4, -2))
    /\ chan[call.args.ch].wfmD["BYT_NR"] = WInt(2)
    /\ DOMAIN chan[call.args.ch].wfmD = wfmT

\* the steps that act on one channel: vertical-setting read, measurement batch,
\* preamble refresh, curve decode
ChannelSteps == {"vert", "measBegin", "measKey", "wfmpre", "curve"}

\* the part of a channel the claim speaks of: measurement values, display
\* strings, preamble cache, traces
OwnedState(ch) ==
    [val |-> ch.ms.val, str |-> ch.ms.str, rstr |-> ch.ms.rstr, wfmD |-> ch.wfmD,
     trace |-> ch.trace, trace_undisplaced |-> ch.trace_undisplaced]

\* C31: a vertical-setting read, measurement batch, preamble refresh or curve
\* decode on one channel leaves the measurement values, display strings,
\* preamble cache and traces of each of the other three channels unchanged
C31_ChannelStateInstanceOwned ==
    [][(pc \in ChannelSteps) =>
          (\A c \in Channels \ {Cur} : OwnedState(chan'[c]) = OwnedState(chan[c]))]_vars

\* a channel step has just run on one channel while another channel holds
\* readings, a preamble and traces of its own that differ from it
C31_Witness ==
    /\ pc = "idle"
    /\ call.op = "acquire"
    /\ call.result = "ok"
    /\ \E c, d \in done :
           /\ c # d
           /\ chan[c].trace # <<>> /\ chan[d].trace # <<>>
           /\ chan[c].wfmD # chan[d].wfmD
           /\ chan[c].trace # chan[d].trace
           /\ chan[c].ms.str # <<>> /\ chan[d].ms.str = <<>>

\* the constructor has returned and no acquire has been called on the client
ConstructedNoAcquire ==
    /\ pc = "idle"
    /\ call.op = "construct"
    /\ call.result = "ok"

\* C32: on a client that has been constructed but has not yet run acquire,
\* channelWasAcq(c) returns false for each of the four channels and does not fail
C32_NotAcquiredBeforeFirstBatch ==
    ConstructedNoAcquire =>
        /\ ChannelWasAcqExc = ""
        /\ \A c \in Channels : ~channelWasAcq(c)

\* C33: every acquire that has written the arm command 'acquire:state on' has
\* written the disarm command 'acquire:state off' after it when control leaves
\* acquire, whether acquire returned or raised
C33_AcquireLeavesInstrumentDisarmed ==
    (pc = "idle" /\ call.op = "acquire") =>
        \A i \in WritePos(tlog, "acquire:state on") :
            \E j \in WritePos(tlog, "acquire:state off") : j > i

\* positions of the log that hold a line read
LinePos(log) == {i \in 1..Len(log) : log[i].k = "readline"}

\* C34: when clear() has succeeded, the number of lines read equals the number
\* of breaks sent, whichever attempt received the acknowledgement, and every
\* line read follows a break of its own (break, settle delay, line read)
C34_ClearReadsOneLinePerBreak ==
    pc = "identify" =>
        /\ Cardinality(LinePos(tlog)) = Cardinality(BreakPos(tlog))
        /\ \A i \in LinePos(tlog) : i > 2 /\ i - 2 \in BreakPos(tlog)

\* C35: once a forced trigger refresh has succeeded, every later getTrigger
\* without forced refresh returns a complete snapshot (state, the four common
\* fields and every field of the cached type's variant) and does not fail on a
\* missing cache entry, whatever setTrigger calls came in between (stated for
\* the cached types EDGE, PULS and VID, the types that have a variant)
C35_UnforcedSnapshotCompleteAfterRefresh ==
    (/\ ncalls > 0
     /\ call.op = "getTrigger"
     /\ ~call.args.forceAcq
     /\ trigD["TYPE"].s \in SnapDevTypes) =>
        /\ call.result = "ok"
        /\ call.ret # <<>>
        /\ DOMAIN call.ret = snapshotCommon \cup VariantFields(trigD["TYPE"].s)

\* one refresh step on channel c with the reply of the call: no entry of the
\* cache is removed, an entry the reply does not carry keeps its value, and on
\* a reply of well-formed fields the refresh fails exactly when neither the
\* cache (the earlier replies) nor the reply has the point count
RefreshKeeps(c, reply) ==
    LET pre == chan[c].wfmD
        post == chan'[c].wfmD
    IN  /\ \A name \in DOMAIN pre :
               /\ name \in DOMAIN post
               /\ FieldPos(reply, name) = {} => post[name] = pre[name]
        /\ WellFormedReply(reply) =>
               (call'.result # "ok" <=>
                    ("NR_PT" \notin DOMAIN pre /\ FieldPos(reply, "NR_PT") = {}))

\* C36: a preamble refresh never removes a cached field: a vocabulary field an
\* earlier reply supplied and the latest reply omits keeps its earlier value,
\* and the refresh fails only if no reply to that channel has supplied the
\* point count; the cache starts empty and only a refresh changes it
C36_RefreshNeverRemovesField ==
    [][IF pc = "wfmpre"
       THEN RefreshKeeps(call.args.ch, call.args.reply)
       ELSE \A c \in Channels : chan'[c].wfmD = chan[c].wfmD]_vars

\* the second refresh of a channel has returned: its reply omitted the point
\* count and further fields, which the cache still holds from the first reply
C36_Witness ==
    /\ call.op = "wfmpreQ"
    /\ call.result = "ok"
    /\ ncalls = 2
    /\ FieldPos(call.args.reply, "NR_PT") = {}
    /\ FieldPos(call.args.reply, "YMULT") # {}
    /\ "NR_PT" \in DOMAIN call.args.pre
    /\ chan[call.args.ch].wfmD["NR_PT"] = call.args.pre["NR_PT"]
    /\ chan[call.args.ch].wfmD["YMULT"] # call.args.pre["YMULT"]
    /\ DOMAIN chan[call.args.ch].wfmD = wfmT

====
